---- MODULE Spec2Model ----
(***************************************************************************)
(* The generation request scheduler of backend/app/llm/hybrid_queue.py     *)
(* (HybridQueueManager) as a state machine.                                *)
(*                                                                         *)
(* Scheduling model.  The manager runs on one asyncio event loop.          *)
(* add_request, _process_queues and _process_request contain no real       *)
(* suspension point (the only awaits are on _store_result and              *)
(* _process_queues, coroutines that never suspend), so each runs as one    *)
(* atomic step.  asyncio.create_task puts the new task at the end of the   *)
(* loop's ready queue, which is served first-in first-out: tasks is that   *)
(* queue.  Calls of add_request come from request handlers and may fall    *)
(* between any two tasks.                                                  *)
(*                                                                         *)
(* External store.  Redis (db 1) outlives the process: the doc_gen:* keys  *)
(* it holds when the manager is constructed are whatever earlier writers   *)
(* left, and they expire by TTL.  result:* and status:* keys are keyed by  *)
(* fresh request ids and so are absent at construction.                    *)
(*                                                                         *)
(* Not modelled: the metrics dictionary (read by no decision) and the      *)
(* expiry of result:* / status:* keys.  Redis write failures appear only   *)
(* in SpecStoreDown.                                                       *)
(*                                                                         *)
(* The module also holds the construction of GenerationRequest             *)
(* (SpecFingerprint, SpecCacheKey), the rank fusion of llm/orchestrator.py *)
(* (SpecFusion, and SpecRetrieval with failing queries) and the model      *)
(* client of llm/hybrid_client.py (SpecClient, SpecSelect),                *)
(* each introduced where its definitions begin; a specification leaves the *)
(* variables of the other components at their initial values.              *)
(***************************************************************************)
EXTENDS Naturals, Integers, Sequences, FiniteSets, TLC

VARIABLES
    queues,                 \* self.queues: priority -> list of requests
    active_requests,        \* self.active_requests: instance -> requests by id
    user_active_requests,   \* self.user_active_requests: user id -> int
    cache,                  \* Redis keys doc_gen:<hash> -> generated text
    result_keys,            \* Redis keys result:<request id> -> text
    status_keys,            \* Redis keys status:<request id> -> status value
    tasks,                  \* the event loop's ready queue of created tasks
    next_id,                \* the next request identifier handed out
    last,                   \* the last operation run, its input and its answer
    args,                   \* the arguments of a call of a pure function
    returned,               \* what that call returned (<<>> before the call)
    instance_health,        \* HybridModelClient.instance_health
    calls,                  \* the calls of stream_generate_async, by slot
    default_url             \* HybridModelClient.default_url

vars == <<queues, active_requests, user_active_requests, cache, result_keys,
          status_keys, tasks, next_id, last, args, returned,
          instance_health, calls, default_url>>

\* the state of the model client
client_vars == <<instance_health, calls, default_url>>

\* what the steps of the queue manager leave alone
outside_queue == <<args, returned, client_vars>>

----------------------------------------------------------------------------
(* Bounds of the model *)

MaxRequests == 3
MaxUsers == 2
MaxCached == 1

----------------------------------------------------------------------------
(* Enumerations and configuration *)

RequestPriority == {"LOW", "NORMAL", "HIGH", "CRITICAL"}

\* a drain pass that visits the lanes from LOW up to CRITICAL
PriorityOrder_ascending == <<"LOW", "NORMAL", "HIGH", "CRITICAL">>

\* priority_order of _process_queues
PriorityOrder == <<"CRITICAL", "HIGH", "NORMAL", "LOW">>

ModelInstance == {"fast", "normal", "priority"}

QUEUED == "queued"
PROCESSING == "processing"
COMPLETED == "completed"
FAILED == "failed"
CACHED == "cached"

capacity_limits == [instance \in ModelInstance |->
    CASE instance = "priority" -> 2
      [] instance = "normal" -> 2
      [] instance = "fast" -> 3]

user_rate_limits == [free |-> 3, premium |-> 8, enterprise |-> 15]

\* a limit that gives every tier the enterprise allowance
UserLimit_flat(tier) == user_rate_limits["enterprise"]

\* self.user_rate_limits.get(tier, 3)
UserLimit(tier) ==
    IF tier \in DOMAIN user_rate_limits THEN user_rate_limits[tier] ELSE 3

GlobalQueueLimit == 100

FastDuration == 30

FastTemplates == {"simple_summary", "quick_notes"}

----------------------------------------------------------------------------
(* GenerationRequest *)

\* hashlib.md5(...).hexdigest(), taken to be collision free
md5(content_str) == "md5(" \o content_str \o ")"

content_hash(prompt, model, template) ==
    md5(prompt \o ":" \o model \o ":" \o template)

\* a constructor that keeps a content_hash passed by the caller
post_init_keep(self) ==
    IF self.content_hash # "" THEN self
    ELSE [self EXCEPT !.content_hash = content_hash(self.prompt, self.model, self.template)]

\* GenerationRequest.__post_init__, applied to the fields as passed
post_init(self) ==
    [self EXCEPT !.content_hash = content_hash(self.prompt, self.model, self.template)]

GenerationRequest(request_id, user_id, prompt, model, priority, template, duration, tier) ==
    post_init([request_id |-> request_id, user_id |-> user_id, prompt |-> prompt,
               model |-> model, priority |-> priority, template |-> template,
               content_hash |-> "",
               estimated_duration |-> duration, user_tier |-> tier])

NoRequest == GenerationRequest(0, 0, "", "", "LOW", "", 0, "")

----------------------------------------------------------------------------
(* Redis, as far as the manager uses it: get and setex on string keys.     *)
(* A value of Optional[str] is <<>> (None) or <<s>>.                       *)

None == <<>>

redis_get(store, key) == IF key \in DOMAIN store THEN <<store[key]>> ELSE None

\* d[key] = value on a dictionary
DictSet(d, key, value) ==
    [k \in DOMAIN d \cup {key} |-> IF k = key THEN value ELSE d[k]]

redis_setex(store, key, value) == DictSet(store, key, value)

\* Python's truth value of an Optional[str]
Truthy(optional) == optional # None /\ optional[1] # ""

get_cache_key(request) == "doc_gen:" \o request.content_hash

check_cache(request) ==
    LET cached_result == redis_get(cache, get_cache_key(request))
    IN  IF Truthy(cached_result) THEN cached_result ELSE None

----------------------------------------------------------------------------
(* Classification and admission *)

\* a classification that looks at the duration and the template first
determine_model_instance_fast_first(request) ==
    IF \/ request.estimated_duration < FastDuration
       \/ request.template \in FastTemplates THEN "fast"
    ELSE IF request.priority \in {"CRITICAL", "HIGH"} THEN "priority"
    ELSE "normal"

determine_model_instance(request) ==
    IF request.priority \in {"CRITICAL", "HIGH"} THEN "priority"
    ELSE IF \/ request.estimated_duration < FastDuration
            \/ request.template \in FastTemplates THEN "fast"
    ELSE "normal"

RECURSIVE SumLen(_, _)
SumLen(qs, prios) ==
    IF prios = {} THEN 0
    ELSE LET p == CHOOSE x \in prios : TRUE
         IN  Len(qs[p]) + SumLen(qs, prios \ {p})

total_queued == SumLen(queues, RequestPriority)

RateLimitReason(user_limit) ==
    "User rate limit exceeded (" \o ToString(user_limit) \o " concurrent requests)"

OverloadedReason == "System overloaded, please try again later"

\* defaultdict(int): a user without an entry counts 0
UserActive(counters, user_id) ==
    IF user_id \in DOMAIN counters THEN counters[user_id] ELSE 0

\* a rate check that lets a user go one request over the limit
UserLimitReached_over(count, user_limit) == count > user_limit

\* if self.user_active_requests[request.user_id] >= user_limit
UserLimitReached(count, user_limit) == count >= user_limit

\* a backlog check that already refuses at GlobalQueueLimit waiting requests
QueueFull_at(total) == total >= GlobalQueueLimit

\* a backlog check that lets one more request wait
QueueFull_later(total) == total > GlobalQueueLimit + 1

\* if total_queued > 100
QueueFull(total) == total > GlobalQueueLimit

can_accept_request(request) ==
    LET user_limit == UserLimit(request.user_tier)
    IN  IF UserLimitReached(UserActive(user_active_requests, request.user_id), user_limit)
        THEN <<FALSE, RateLimitReason(user_limit)>>
        ELSE IF QueueFull(total_queued)
        THEN <<FALSE, OverloadedReason>>
        ELSE <<TRUE, "OK">>

----------------------------------------------------------------------------
(* Tasks on the event loop *)

DrainTask == [kind |-> "process_queues", request |-> NoRequest, instance |-> ""]

ProcessTask(request, instance) ==
    [kind |-> "process_request", request |-> request, instance |-> instance]

\* what the last step was: the operation, the request it was called with, the
\* status and payload it returned or stored, and the tasks it created
Answer(op, request, status, payload, created) ==
    [op |-> op, request |-> request, status |-> status, payload |-> payload,
     created |-> created]

----------------------------------------------------------------------------
(* add_request *)

\* a lane that takes new requests at its head
Enqueue_front(queue, request) == <<request>> \o queue

\* self.queues[request.priority].append(request)
Enqueue(queue, request) == Append(queue, request)

\* an acceptance that leaves the user's counter alone
Increment_none(counters, user_id) == counters

\* self.user_active_requests[request.user_id] += 1
Increment(counters, user_id) ==
    DictSet(counters, user_id, UserActive(counters, user_id) + 1)

\* an add_request that asks _can_accept_request before it looks at the cache
add_request_admission_first(request) ==
    LET cached_result == check_cache(request)
        verdict == can_accept_request(request)
    IN  /\ next_id' = next_id + 1
        /\ UNCHANGED <<active_requests, cache, result_keys, status_keys>>
        /\ IF ~verdict[1]
           THEN /\ last' = Answer("add_request", request, FAILED, verdict[2], <<>>)
                /\ UNCHANGED <<queues, user_active_requests, tasks>>
           ELSE IF Truthy(cached_result)
           THEN /\ last' = Answer("add_request", request, CACHED, cached_result[1], <<>>)
                /\ UNCHANGED <<queues, user_active_requests, tasks>>
           ELSE /\ queues' = [queues EXCEPT ![request.priority] = Enqueue(@, request)]
                /\ user_active_requests' = Increment(user_active_requests, request.user_id)
                /\ tasks' = Append(tasks, DrainTask)
                /\ last' = Answer("add_request", request, QUEUED,
                                  "Request queued successfully", <<DrainTask>>)

add_request(request) ==
    LET cached_result == check_cache(request)
        verdict == can_accept_request(request)
    IN  /\ next_id' = next_id + 1
        /\ UNCHANGED <<active_requests, cache, result_keys, status_keys>>
        /\ IF Truthy(cached_result)
           THEN /\ last' = Answer("add_request", request, CACHED, cached_result[1], <<>>)
                /\ UNCHANGED <<queues, user_active_requests, tasks>>
           ELSE IF ~verdict[1]
           THEN /\ last' = Answer("add_request", request, FAILED, verdict[2], <<>>)
                /\ UNCHANGED <<queues, user_active_requests, tasks>>
           ELSE /\ queues' = [queues EXCEPT ![request.priority] = Enqueue(@, request)]
                /\ user_active_requests' = Increment(user_active_requests, request.user_id)
                /\ tasks' = Append(tasks, DrainTask)
                /\ last' = Answer("add_request", request, QUEUED,
                                  "Request queued successfully", <<DrainTask>>)

----------------------------------------------------------------------------
(* _process_queues: one drain pass *)

\* a capacity check that admits one request more than the limit
HasCapacity_inclusive(active, instance) ==
    ~(Cardinality(active[instance]) > capacity_limits[instance])

\* the negation of: len(self.active_requests[...]) >= self.capacity_limits[...]
HasCapacity(active, instance) ==
    ~(Cardinality(active[instance]) >= capacity_limits[instance])

\* a loop that steps over a head it cannot dispatch and goes on with the lane
RECURSIVE DrainLane_skipping(_, _, _)
DrainLane_skipping(queue, active, created) ==
    IF queue = <<>> THEN <<queue, active, created>>
    ELSE LET request == Head(queue)
             instance == determine_model_instance(request)
         IN  IF ~HasCapacity(active, instance)
             THEN LET rest == DrainLane_skipping(Tail(queue), active, created)
                  IN  <<<<request>> \o rest[1], rest[2], rest[3]>>
             ELSE DrainLane_skipping(Tail(queue),
                                     [active EXCEPT ![instance] = @ \cup {request}],
                                     Append(created, ProcessTask(request, instance)))

\* a loop that dispatches a head and leaves it in its lane
RECURSIVE DrainLane_keep(_, _, _)
DrainLane_keep(queue, active, created) ==
    IF queue = <<>> THEN <<queue, active, created>>
    ELSE LET request == Head(queue)
             instance == determine_model_instance(request)
         IN  IF ~HasCapacity(active, instance)
             THEN <<queue, active, created>>
             ELSE LET rest == DrainLane_keep(Tail(queue),
                                             [active EXCEPT ![instance] = @ \cup {request}],
                                             Append(created, ProcessTask(request, instance)))
                  IN  <<<<request>> \o rest[1], rest[2], rest[3]>>

\* the while loop over one lane: <<lane left, active sets, tasks created>>
RECURSIVE DrainLane(_, _, _)
DrainLane(queue, active, created) ==
    IF queue = <<>> THEN <<queue, active, created>>
    ELSE LET request == Head(queue)
             instance == determine_model_instance(request)
         IN  IF ~HasCapacity(active, instance)
             THEN <<queue, active, created>>
             ELSE DrainLane(Tail(queue),
                            [active EXCEPT ![instance] = @ \cup {request}],
                            Append(created, ProcessTask(request, instance)))

\* a pass that ends at the first lane whose head it cannot dispatch
RECURSIVE DrainFrom_stop(_, _, _, _)
DrainFrom_stop(i, qs, active, created) ==
    IF i > Len(PriorityOrder) THEN <<qs, active, created>>
    ELSE LET priority == PriorityOrder[i]
             lane == DrainLane(qs[priority], active, created)
         IN  IF lane[1] # <<>>
             THEN <<[qs EXCEPT ![priority] = lane[1]], lane[2], lane[3]>>
             ELSE DrainFrom_stop(i + 1, [qs EXCEPT ![priority] = lane[1]],
                                 lane[2], lane[3])

\* the for loop over the lanes, from lane number i of PriorityOrder on
RECURSIVE DrainFrom(_, _, _, _)
DrainFrom(i, qs, active, created) ==
    IF i > Len(PriorityOrder) THEN <<qs, active, created>>
    ELSE LET priority == PriorityOrder[i]
             lane == DrainLane(qs[priority], active, created)
         IN  DrainFrom(i + 1, [qs EXCEPT ![priority] = lane[1]], lane[2], lane[3])

process_queues_result(qs, active) == DrainFrom(1, qs, active, <<>>)

process_queues ==
    /\ tasks # <<>>
    /\ Head(tasks).kind = "process_queues"
    /\ LET pass == process_queues_result(queues, active_requests)
       IN  /\ queues' = pass[1]
           /\ active_requests' = pass[2]
           /\ tasks' = Tail(tasks) \o pass[3]
           /\ last' = Answer("process_queues", NoRequest, "", "", pass[3])
    /\ UNCHANGED <<user_active_requests, cache, result_keys, status_keys, next_id>>
    /\ UNCHANGED outside_queue

----------------------------------------------------------------------------
(* _process_request and _store_result *)

\* The attributes of the shared client object (model_interface.unified_client):
\* UnifiedModelClient.__init__ sets self.clients and nothing else, and the class
\* defines neither ollama_url nor stream_generate_async.
UnifiedClientAttributes ==
    {"clients", "stream_generate", "embed_texts", "get_available_models"}

AttributeErrorText(attribute) ==
    "'UnifiedModelClient' object has no attribute '" \o attribute \o "'"

store_result(request_id, result, status) ==
    /\ result_keys' = redis_setex(result_keys, request_id, result)
    /\ status_keys' = redis_setex(status_keys, request_id, status)

\* Reading unified_client.ollama_url (line 218) raises AttributeError before
\* original_url is bound.  The handler stores the FAILED record.  The finally
\* block then reads original_url (line 252), which raises UnboundLocalError
\* out of the task: lines 255-259 (removal from the active set, decrement of
\* the user's counter, the further drain pass) are not executed.
process_request ==
    /\ tasks # <<>>
    /\ Head(tasks).kind = "process_request"
    /\ "ollama_url" \notin UnifiedClientAttributes
    /\ LET request == Head(tasks).request
       IN  /\ store_result(request.request_id, AttributeErrorText("ollama_url"), FAILED)
           /\ last' = Answer("process_request", request, FAILED,
                             AttributeErrorText("ollama_url"), <<>>)
    /\ tasks' = Tail(tasks)
    /\ UNCHANGED <<queues, active_requests, user_active_requests, cache, next_id>>
    /\ UNCHANGED outside_queue

----------------------------------------------------------------------------
(* Status queries: read-only functions of the state *)

get_request_status(request_id) ==
    LET status_str == redis_get(status_keys, request_id)
    IN  IF ~Truthy(status_str) THEN <<FAILED, <<"Request not found">> >>
        ELSE IF status_str[1] \in {COMPLETED, FAILED}
        THEN <<status_str[1], redis_get(result_keys, request_id)>>
        ELSE <<status_str[1], None>>

\* a position count that forgets the lanes already passed
LaneOffset_none(position, lane) == position

\* position += len(self.queues[priority])
LaneOffset(position, lane) == position + Len(lane)

\* enumerate(self.queues[priority]): the 0-based index of the first request
\* of the lane with this identifier, None when there is none
IndexIn(lane, request_id) ==
    LET hits == {i \in 1..Len(lane) : lane[i].request_id = request_id}
    IN  IF hits = {} THEN None
        ELSE <<(CHOOSE i \in hits : \A j \in hits : i <= j) - 1>>

\* the loops of get_user_queue_position over lanes qs and active sets active
RECURSIVE PositionFrom(_, _, _, _, _)
PositionFrom(i, position, qs, active, request_id) ==
    IF i > Len(PriorityOrder)
    THEN IF \E instance \in ModelInstance :
               \E r \in active[instance] : r.request_id = request_id
         THEN 0
         ELSE -1
    ELSE LET lane == qs[PriorityOrder[i]]
             found == IndexIn(lane, request_id)
         IN  IF found # None THEN position + found[1]
             ELSE PositionFrom(i + 1, LaneOffset(position, lane), qs, active, request_id)

get_user_queue_position(user_id, request_id) ==
    PositionFrom(1, 0, queues, active_requests, request_id)

----------------------------------------------------------------------------
(* Environment: expiry of a cache entry (setex TTL, self.cache_ttl) *)

cache_expire ==
    /\ \E key \in DOMAIN cache :
          cache' = [k \in DOMAIN cache \ {key} |-> cache[k]]
    /\ last' = Answer("cache_expire", NoRequest, "", "", <<>>)
    /\ UNCHANGED <<queues, active_requests, user_active_requests, result_keys,
                   status_keys, tasks, next_id>>
    /\ UNCHANGED outside_queue

----------------------------------------------------------------------------
(* HybridModelClient (backend/app/llm/hybrid_client.py): its data.         *)
(*                                                                         *)
(* last_check is kept as what _get_best_instance reads from it:            *)
(* "None", or whether (now - last_check).seconds is within 60 or over.     *)
(* response_time is in seconds; a probe that answers does so within its    *)
(* timeout of 5 s.                                                         *)

MaxCalls == 3

primary_url == "http://localhost:11434"
secondary_url == "http://localhost:11435"
fast_url == "http://localhost:11436"

\* OLLAMA_URL unset, or set as in settings.py
DefaultUrls == {"http://localhost:11434", "http://ollama:11434"}

\* the keys of instance_health, in the order of the dictionary
InstanceNames == <<"primary", "secondary", "fast">>

Instances == {"primary", "secondary", "fast"}

url_map == [primary |-> primary_url, secondary |-> secondary_url, fast |-> fast_url]

instance_limits == [primary |-> 2, secondary |-> 2, fast |-> 3]

InitialHealth ==
    [last_check |-> "None", healthy |-> TRUE, response_time |-> 0, active_requests |-> 0]

UnhealthyResponseTime == 999

QuickDuration == 30

\* a call not made yet
IdleCall ==
    [pc |-> "idle", position |-> 0, stale |-> {}, instance_url |-> "",
     instance_name |-> "None"]

\* a call that has ended
EndedCall == [IdleCall EXCEPT !.pc = "ended"]

\* the client as constructed with the default environment, no call made
ClientIdle ==
    /\ instance_health = [name \in Instances |-> InitialHealth]
    /\ calls = [c \in 1..MaxCalls |-> IdleCall]
    /\ default_url = "http://localhost:11434"

----------------------------------------------------------------------------
(* Inputs of the general specification *)

Users == 1..MaxUsers
Tiers == {"free"}
Prompts == {"X"}
Models == {"phi3:mini"}
Templates == {"simple_summary", "report"}
Durations == {60}
Texts == {"", "generated text"}

CacheKeys == {"doc_gen:" \o content_hash(p, m, t) :
                  p \in Prompts, m \in Models, t \in Templates}

Inputs(request_id) ==
    {GenerationRequest(request_id, u, p, m, pr, t, d, tier) :
        u \in Users, p \in Prompts, m \in Models, pr \in RequestPriority,
        t \in Templates, d \in Durations, tier \in Tiers}

Init ==
    /\ queues = [p \in RequestPriority |-> <<>>]
    /\ active_requests = [i \in ModelInstance |-> {}]
    /\ user_active_requests = <<>>
    /\ \E keys \in SUBSET CacheKeys :
          /\ Cardinality(keys) <= MaxCached
          /\ cache \in [keys -> Texts]
    /\ result_keys = <<>>
    /\ status_keys = <<>>
    /\ tasks = <<>>
    /\ next_id = 1
    /\ last = Answer("init", NoRequest, "", "", <<>>)
    /\ args = <<>>
    /\ returned = <<>>
    /\ ClientIdle

Submit ==
    /\ next_id <= MaxRequests
    /\ \E request \in Inputs(next_id) : add_request(request)
    /\ UNCHANGED outside_queue

Next ==
    \/ Submit
    \/ process_queues
    \/ process_request
    \/ cache_expire

Spec == Init /\ [][Next]_vars

----------------------------------------------------------------------------
(* A load scenario: one fixed sequence of add_request calls, long enough   *)
(* to reach every tier's limit and the global queue limit, under every     *)
(* schedule of the tasks that leaves at most MaxPending of them waiting    *)
(* when a call arrives.                                                    *)

MaxPending == 2

\* <<user, tier, priority, template, estimated duration, prompt>> of the
\* first calls: user 1 (premium) fills the normal and fast instances and then
\* its own limit of 8, user 2 (free) and user 3 (pro) their limits of 3.
LoadHead == <<
    <<1, "premium", "NORMAL", "report", 60, "Y">>,
    <<1, "premium", "LOW", "report", 60, "Y">>,
    <<1, "premium", "NORMAL", "simple_summary", 60, "Y">>,
    <<1, "premium", "LOW", "report", 20, "Y">>,
    <<1, "premium", "NORMAL", "report", 60, "Y">>,
    <<1, "premium", "NORMAL", "quick_notes", 60, "Y">>,
    <<1, "premium", "LOW", "simple_summary", 60, "Y">>,
    <<1, "premium", "HIGH", "report", 60, "Y">>,
    <<1, "premium", "CRITICAL", "report", 60, "X">>,
    <<2, "free", "HIGH", "report", 60, "Y">>,
    <<2, "free", "CRITICAL", "report", 20, "Y">>,
    <<2, "free", "HIGH", "quick_notes", 60, "Y">>,
    <<2, "free", "LOW", "simple_summary", 60, "X">>,
    <<3, "pro", "CRITICAL", "report", 60, "Y">>,
    <<3, "pro", "NORMAL", "report", 60, "Y">>,
    <<3, "pro", "LOW", "quick_notes", 60, "Y">>,
    <<3, "pro", "NORMAL", "report", 60, "Y">> >>

\* then users 4.. (enterprise) make LoadPerUser calls each, one more than the
\* enterprise limit
LoadPerUser == user_rate_limits.enterprise + 1
LoadBulkUsers == 7

LoadTail == <<
    <<4, "enterprise", "NORMAL", "report", 60, "Y">>,
    <<11, "enterprise", "LOW", "report", 60, "X">>,
    <<2, "free", "NORMAL", "simple_summary", 60, "X">> >>

LoadShape(n) ==
    IF n <= Len(LoadHead) THEN LoadHead[n]
    ELSE IF n <= Len(LoadHead) + LoadPerUser * LoadBulkUsers
    THEN LET k == n - Len(LoadHead) - 1
         IN  <<4 + (k \div LoadPerUser), "enterprise", PriorityOrder[(k % 4) + 1],
               IF k % 2 = 0 THEN "report" ELSE "quick_notes", 60, "Y">>
    ELSE LoadTail[((n - Len(LoadHead) - LoadPerUser * LoadBulkUsers - 1)
                     % Len(LoadTail)) + 1]

\* and the last calls arrive when more than GlobalQueueLimit requests wait
MaxLoad == Len(LoadHead) + LoadPerUser * LoadBulkUsers + Len(LoadTail)

Workload(n) ==
    LET shape == LoadShape(n)
    IN  GenerationRequest(n, shape[1], shape[6], "phi3:mini", shape[3], shape[4],
                          shape[5], shape[2])

SubmitLoad ==
    /\ next_id <= MaxLoad
    /\ Len(tasks) <= MaxPending
    /\ add_request(Workload(next_id))
    /\ UNCHANGED outside_queue

NextLoad ==
    \/ SubmitLoad
    \/ process_queues
    \/ process_request
    \/ cache_expire

SpecLoad == Init /\ [][NextLoad]_vars

\* the same with the event loop running every task it holds: a created task
\* is run, and what it awaits returns or raises
SpecLoadFair ==
    Init /\ [][NextLoad]_vars /\ WF_vars(process_queues) /\ WF_vars(process_request)

----------------------------------------------------------------------------
(* The load scenario with Redis refusing writes.  _store_result makes two  *)
(* setex calls inside one try: when the first raises nothing is written,   *)
(* when the second raises the result is left without its status; the       *)
(* exception is logged and _store_result returns.                          *)

MaxStoreFailures == 1

\* the executions that ended without a status record
Unrecorded ==
    {request \in UNION {active_requests[instance] : instance \in ModelInstance} :
        /\ request.request_id \notin DOMAIN status_keys
        /\ \A k \in 1..Len(tasks) : tasks[k].request # request}

\* _store_result with written of its two setex calls done before the one
\* that raises
store_result_raising(request_id, result, written) ==
    /\ result_keys' = IF written >= 1 THEN redis_setex(result_keys, request_id, result)
                      ELSE result_keys
    /\ status_keys' = status_keys

\* _process_request while Redis refuses a write
process_request_store_down ==
    /\ tasks # <<>>
    /\ Head(tasks).kind = "process_request"
    /\ "ollama_url" \notin UnifiedClientAttributes
    /\ Cardinality(Unrecorded) < MaxStoreFailures
    /\ LET request == Head(tasks).request
       IN  /\ \E written \in {0, 1} :
                 store_result_raising(request.request_id,
                                      AttributeErrorText("ollama_url"), written)
           /\ last' = Answer("process_request", request, FAILED,
                             AttributeErrorText("ollama_url"), <<>>)
    /\ tasks' = Tail(tasks)
    /\ UNCHANGED <<queues, active_requests, user_active_requests, cache, next_id>>
    /\ UNCHANGED outside_queue

NextStoreDown ==
    \/ SubmitLoad
    \/ process_queues
    \/ process_request
    \/ process_request_store_down
    \/ cache_expire

SpecStoreDown == Init /\ [][NextStoreDown]_vars

----------------------------------------------------------------------------
(* Construction of requests: GenerationRequest(...) applied to two sets of *)
(* constructor arguments.                                                  *)

\* the manager as constructed, with an empty store: the state in which the
\* other components are exercised
QueueIdle ==
    /\ queues = [p \in RequestPriority |-> <<>>]
    /\ active_requests = [i \in ModelInstance |-> {}]
    /\ user_active_requests = <<>>
    /\ cache = <<>>
    /\ result_keys = <<>>
    /\ status_keys = <<>>
    /\ tasks = <<>>
    /\ next_id = 1
    /\ last = Answer("init", NoRequest, "", "", <<>>)

queue_vars == <<queues, active_requests, user_active_requests, cache,
                result_keys, status_keys, tasks, next_id, last>>

\* constructor arguments: every field of the dataclass, content_hash and
\* created_at included
FieldsOf(request_id, user_id, prompt, model, priority, template, hash, created_at, duration, tier) ==
    [request_id |-> request_id, user_id |-> user_id, prompt |-> prompt,
     model |-> model, priority |-> priority, template |-> template,
     content_hash |-> hash, created_at |-> created_at,
     estimated_duration |-> duration, user_tier |-> tier]

FirstFields ==
    {FieldsOf(1, 1, p, m, "NORMAL", t, "", 0, 60, "free") :
        p \in {"X", "Y"}, m \in {"phi3:mini", "llama3"},
        t \in {"report", "simple_summary"}}

SecondFields ==
    {FieldsOf(id, u, p, m, pr, t, h, c, d, tier) :
        id \in {1, 2}, u \in {1, 2}, p \in {"X", "Y"},
        m \in {"phi3:mini", "llama3"}, pr \in {"NORMAL", "CRITICAL"},
        t \in {"report", "simple_summary"}, h \in {"", "0123abcd"},
        c \in {0, 1}, d \in {60, 20}, tier \in {"free", "enterprise"}}

InitFingerprint ==
    /\ QueueIdle
    /\ args \in FirstFields \X SecondFields
    /\ returned = <<>>
    /\ ClientIdle

construct ==
    /\ returned = <<>>
    /\ returned' = <<post_init(args[1]), post_init(args[2])>>
    /\ UNCHANGED <<queue_vars, args, client_vars>>

NextFingerprint == construct

SpecFingerprint == InitFingerprint /\ [][NextFingerprint]_vars

\* the same construction with prompts, models and templates that contain the
\* separator of content_str: model names do ("phi3:mini"), prompts are free
\* text
SeparatorFields ==
    {FieldsOf(id, 1, p, m, "NORMAL", t, "", 0, 60, "free") :
        id \in {1, 2}, p \in {"X", "X:phi3"}, m \in {"phi3:mini", "mini"},
        t \in {"report", "mini:report"}}

InitCacheKey ==
    /\ QueueIdle
    /\ args \in SeparatorFields \X SeparatorFields
    /\ returned = <<>>
    /\ ClientIdle

construct_keys ==
    /\ returned = <<>>
    /\ returned' = <<get_cache_key(post_init(args[1])),
                     get_cache_key(post_init(args[2]))>>
    /\ UNCHANGED <<queue_vars, args, client_vars>>

NextCacheKey == construct_keys

SpecCacheKey == InitCacheKey /\ [][NextCacheKey]_vars

----------------------------------------------------------------------------
(* Retrieval: search_snippets_hybrid of backend/app/llm/orchestrator.py.   *)
(* The two SQL queries are its inputs: rows_v and rows_b are the snippet   *)
(* ids of the rows they return, best first, at most n each and without     *)
(* repetition (id is the primary key).  n >= 1, so that max(n, 1) = n.     *)
(*                                                                         *)
(* Scores are Python floats.  A float is written <<sign, hi, mid, lo>>:    *)
(* the sign bit and the remaining 63 bits of its IEEE 754 binary64 form in *)
(* three groups of 21 bits, so that floats of one sign are ordered as      *)
(* these triples are.  double_scores_<alpha>[n][rv + 1][rb + 1] is the     *)
(* value of  alpha * (rv / n) + (1.0 - alpha) * (rb / n)  as Python        *)
(* computes it.                                                            *)

MaxPool == 5
MaxTopK == 2

SnippetIds == {1, 2, 3, 4}
Weights == {"0.0", "0.5", "1.0", "2.0"}

double_scores_0_0 ==
    <<
      << \* n = 1
         <<<<0, 0, 0, 0>>, <<0, 1047552, 0, 0>>>>,
         <<<<0, 0, 0, 0>>, <<0, 1047552, 0, 0>>>> >>,
      << \* n = 2
         <<<<0, 0, 0, 0>>, <<0, 1046528, 0, 0>>, <<0, 1047552, 0, 0>>>>,
         <<<<0, 0, 0, 0>>, <<0, 1046528, 0, 0>>, <<0, 1047552, 0, 0>>>>,
         <<<<0, 0, 0, 0>>, <<0, 1046528, 0, 0>>, <<0, 1047552, 0, 0>>>> >>,
      << \* n = 3
         <<<<0, 0, 0, 0>>, <<0, 1045845, 699050, 1398101>>, <<0, 1046869, 699050, 1398101>>, <<0, 1047552, 0, 0>>>>,
         <<<<0, 0, 0, 0>>, <<0, 1045845, 699050, 1398101>>, <<0, 1046869, 699050, 1398101>>, <<0, 1047552, 0, 0>>>>,
         <<<<0, 0, 0, 0>>, <<0, 1045845, 699050, 1398101>>, <<0, 1046869, 699050, 1398101>>, <<0, 1047552, 0, 0>>>>,
         <<<<0, 0, 0, 0>>, <<0, 1045845, 699050, 1398101>>, <<0, 1046869, 699050, 1398101>>, <<0, 1047552, 0, 0>>>> >>,
      << \* n = 4
         <<<<0, 0, 0, 0>>, <<0, 1045504, 0, 0>>, <<0, 1046528, 0, 0>>, <<0, 1047040, 0, 0>>, <<0, 1047552, 0, 0>>>>,
         <<<<0, 0, 0, 0>>, <<0, 1045504, 0, 0>>, <<0, 1046528, 0, 0>>, <<0, 1047040, 0, 0>>, <<0, 1047552, 0, 0>>>>,
         <<<<0, 0, 0, 0>>, <<0, 1045504, 0, 0>>, <<0, 1046528, 0, 0>>, <<0, 1047040, 0, 0>>, <<0, 1047552, 0, 0>>>>,
         <<<<0, 0, 0, 0>>, <<0, 1045504, 0, 0>>, <<0, 1046528, 0, 0>>, <<0, 1047040, 0, 0>>, <<0, 1047552, 0, 0>>>>,
         <<<<0, 0, 0, 0>>, <<0, 1045504, 0, 0>>, <<0, 1046528, 0, 0>>, <<0, 1047040, 0, 0>>, <<0, 1047552, 0, 0>>>> >>,
      << \* n = 5
         <<<<0, 0, 0, 0>>, <<0, 1045094, 838860, 1677722>>, <<0, 1046118, 838860, 1677722>>, <<0, 1046732, 1677721, 1258291>>, <<0, 1047142, 838860, 1677722>>, <<0, 1047552, 0, 0>>>>,
         <<<<0, 0, 0, 0>>, <<0, 1045094, 838860, 1677722>>, <<0, 1046118, 838860, 1677722>>, <<0, 1046732, 1677721, 1258291>>, <<0, 1047142, 838860, 1677722>>, <<0, 1047552, 0, 0>>>>,
         <<<<0, 0, 0, 0>>, <<0, 1045094, 838860, 1677722>>, <<0, 1046118, 838860, 1677722>>, <<0, 1046732, 1677721, 1258291>>, <<0, 1047142, 838860, 1677722>>, <<0, 1047552, 0, 0>>>>,
         <<<<0, 0, 0, 0>>, <<0, 1045094, 838860, 1677722>>, <<0, 1046118, 838860, 1677722>>, <<0, 1046732, 1677721, 1258291>>, <<0, 1047142, 838860, 1677722>>, <<0, 1047552, 0, 0>>>>,
         <<<<0, 0, 0, 0>>, <<0, 1045094, 838860, 1677722>>, <<0, 1046118, 838860, 1677722>>, <<0, 1046732, 1677721, 1258291>>, <<0, 1047142, 838860, 1677722>>, <<0, 1047552, 0, 0>>>>,
         <<<<0, 0, 0, 0>>, <<0, 1045094, 838860, 1677722>>, <<0, 1046118, 838860, 1677722>>, <<0, 1046732, 1677721, 1258291>>, <<0, 1047142, 838860, 1677722>>, <<0, 1047552, 0, 0>>>> >>,
      << \* n = 6
         <<<<0, 0, 0, 0>>, <<0, 1044821, 699050, 1398101>>, <<0, 1045845, 699050, 1398101>>, <<0, 1046528, 0, 0>>, <<0, 1046869, 699050, 1398101>>, <<0, 1047210, 1398101, 699051>>, <<0, 1047552, 0, 0>>>>,
         <<<<0, 0, 0, 0>>, <<0, 1044821, 699050, 1398101>>, <<0, 1045845, 699050, 1398101>>, <<0, 1046528, 0, 0>>, <<0, 1046869, 699050, 1398101>>, <<0, 1047210, 1398101, 699051>>, <<0, 1047552, 0, 0>>>>,
         <<<<0, 0, 0, 0>>, <<0, 1044821, 699050, 1398101>>, <<0, 1045845, 699050, 1398101>>, <<0, 1046528, 0, 0>>, <<0, 1046869, 699050, 1398101>>, <<0, 1047210, 1398101, 699051>>, <<0, 1047552, 0, 0>>>>,
         <<<<0, 0, 0, 0>>, <<0, 1044821, 699050, 1398101>>, <<0, 1045845, 699050, 1398101>>, <<0, 1046528, 0, 0>>, <<0, 1046869, 699050, 1398101>>, <<0, 1047210, 1398101, 699051>>, <<0, 1047552, 0, 0>>>>,
         <<<<0, 0, 0, 0>>, <<0, 1044821, 699050, 1398101>>, <<0, 1045845, 699050, 1398101>>, <<0, 1046528, 0, 0>>, <<0, 1046869, 699050, 1398101>>, <<0, 1047210, 1398101, 699051>>, <<0, 1047552, 0, 0>>>>,
         <<<<0, 0, 0, 0>>, <<0, 1044821, 699050, 1398101>>, <<0, 1045845, 699050, 1398101>>, <<0, 1046528, 0, 0>>, <<0, 1046869, 699050, 1398101>>, <<0, 1047210, 1398101, 699051>>, <<0, 1047552, 0, 0>>>>,
         <<<<0, 0, 0, 0>>, <<0, 1044821, 699050, 1398101>>, <<0, 1045845, 699050, 1398101>>, <<0, 1046528, 0, 0>>, <<0, 1046869, 699050, 1398101>>, <<0, 1047210, 1398101, 699051>>, <<0, 1047552, 0, 0>>>> >> >>

double_scores_0_5 ==
    <<
      << \* n = 1
         <<<<0, 0, 0, 0>>, <<0, 1046528, 0, 0>>>>,
         <<<<0, 1046528, 0, 0>>, <<0, 1047552, 0, 0>>>> >>,
      << \* n = 2
         <<<<0, 0, 0, 0>>, <<0, 1045504, 0, 0>>, <<0, 1046528, 0, 0>>>>,
         <<<<0, 1045504, 0, 0>>, <<0, 1046528, 0, 0>>, <<0, 1047040, 0, 0>>>>,
         <<<<0, 1046528, 0, 0>>, <<0, 1047040, 0, 0>>, <<0, 1047552, 0, 0>>>> >>,
      << \* n = 3
         <<<<0, 0, 0, 0>>, <<0, 1044821, 699050, 1398101>>, <<0, 1045845, 699050, 1398101>>, <<0, 1046528, 0, 0>>>>,
         <<<<0, 1044821, 699050, 1398101>>, <<0, 1045845, 699050, 1398101>>, <<0, 1046528, 0, 0>>, <<0, 1046869, 699050, 1398101>>>>,
         <<<<0, 1045845, 699050, 1398101>>, <<0, 1046528, 0, 0>>, <<0, 1046869, 699050, 1398101>>, <<0, 1047210, 1398101, 699050>>>>,
         <<<<0, 1046528, 0, 0>>, <<0, 1046869, 699050, 1398101>>, <<0, 1047210, 1398101, 699050>>, <<0, 1047552, 0, 0>>>> >>,
      << \* n = 4
         <<<<0, 0, 0, 0>>, <<0, 1044480, 0, 0>>, <<0, 1045504, 0, 0>>, <<0, 1046016, 0, 0>>, <<0, 1046528, 0, 0>>>>,
         <<<<0, 1044480, 0, 0>>, <<0, 1045504, 0, 0>>, <<0, 1046016, 0, 0>>, <<0, 1046528, 0, 0>>, <<0, 1046784, 0, 0>>>>,
         <<<<0, 1045504, 0, 0>>, <<0, 1046016, 0, 0>>, <<0, 1046528, 0, 0>>, <<0, 1046784, 0, 0>>, <<0, 1047040, 0, 0>>>>,
         <<<<0, 1046016, 0, 0>>, <<0, 1046528, 0, 0>>, <<0, 1046784, 0, 0>>, <<0, 1047040, 0, 0>>, <<0, 1047296, 0, 0>>>>,
         <<<<0, 1046528, 0, 0>>, <<0, 1046784, 0, 0>>, <<0, 1047040, 0, 0>>, <<0, 1047296, 0, 0>>, <<0, 1047552, 0, 0>>>> >>,
      << \* n = 5
         <<<<0, 0, 0, 0>>, <<0, 1044070, 838860, 1677722>>, <<0, 1045094, 838860, 1677722>>, <<0, 1045708, 1677721, 1258291>>, <<0, 1046118, 838860, 1677722>>, <<0, 1046528, 0, 0>>>>,
         <<<<0, 1044070, 838860, 1677722>>, <<0, 1045094, 838860, 1677722>>, <<0, 1045708, 1677721, 1258292>>, <<0, 1046118, 838860, 1677722>>, <<0, 1046528, 0, 0>>, <<0, 1046732, 1677721, 1258291>>>>,
         <<<<0, 1045094, 838860, 1677722>>, <<0, 1045708, 1677721, 1258292>>, <<0, 1046118, 838860, 1677722>>, <<0, 1046528, 0, 0>>, <<0, 1046732, 1677721, 1258292>>, <<0, 1046937, 1258291, 419430>>>>,
         <<<<0, 1045708, 1677721, 1258291>>, <<0, 1046118, 838860, 1677722>>, <<0, 1046528, 0, 0>>, <<0, 1046732, 1677721, 1258291>>, <<0, 1046937, 1258291, 419430>>, <<0, 1047142, 838860, 1677722>>>>,
         <<<<0, 1046118, 838860, 1677722>>, <<0, 1046528, 0, 0>>, <<0, 1046732, 1677721, 1258292>>, <<0, 1046937, 1258291, 419430>>, <<0, 1047142, 838860, 1677722>>, <<0, 1047347, 419430, 838861>>>>,
         <<<<0, 1046528, 0, 0>>, <<0, 1046732, 1677721, 1258291>>, <<0, 1046937, 1258291, 419430>>, <<0, 1047142, 838860, 1677722>>, <<0, 1047347, 419430, 838861>>, <<0, 1047552, 0, 0>>>> >>,
      << \* n = 6
         <<<<0, 0, 0, 0>>, <<0, 1043797, 699050, 1398101>>, <<0, 1044821, 699050, 1398101>>, <<0, 1045504, 0, 0>>, <<0, 1045845, 699050, 1398101>>, <<0, 1046186, 1398101, 699051>>, <<0, 1046528, 0, 0>>>>,
         <<<<0, 1043797, 699050, 1398101>>, <<0, 1044821, 699050, 1398101>>, <<0, 1045504, 0, 0>>, <<0, 1045845, 699050, 1398101>>, <<0, 1046186, 1398101, 699050>>, <<0, 1046528, 0, 0>>, <<0, 1046698, 1398101, 699051>>>>,
         <<<<0, 1044821, 699050, 1398101>>, <<0, 1045504, 0, 0>>, <<0, 1045845, 699050, 1398101>>, <<0, 1046186, 1398101, 699050>>, <<0, 1046528, 0, 0>>, <<0, 1046698, 1398101, 699051>>, <<0, 1046869, 699050, 1398101>>>>,
         <<<<0, 1045504, 0, 0>>, <<0, 1045845, 699050, 1398101>>, <<0, 1046186, 1398101, 699050>>, <<0, 1046528, 0, 0>>, <<0, 1046698, 1398101, 699050>>, <<0, 1046869, 699050, 1398102>>, <<0, 1047040, 0, 0>>>>,
         <<<<0, 1045845, 699050, 1398101>>, <<0, 1046186, 1398101, 699050>>, <<0, 1046528, 0, 0>>, <<0, 1046698, 1398101, 699050>>, <<0, 1046869, 699050, 1398101>>, <<0, 1047040, 0, 0>>, <<0, 1047210, 1398101, 699050>>>>,
         <<<<0, 1046186, 1398101, 699051>>, <<0, 1046528, 0, 0>>, <<0, 1046698, 1398101, 699051>>, <<0, 1046869, 699050, 1398102>>, <<0, 1047040, 0, 0>>, <<0, 1047210, 1398101, 699051>>, <<0, 1047381, 699050, 1398102>>>>,
         <<<<0, 1046528, 0, 0>>, <<0, 1046698, 1398101, 699051>>, <<0, 1046869, 699050, 1398101>>, <<0, 1047040, 0, 0>>, <<0, 1047210, 1398101, 699050>>, <<0, 1047381, 699050, 1398102>>, <<0, 1047552, 0, 0>>>> >> >>

double_scores_1_0 ==
    <<
      << \* n = 1
         <<<<0, 0, 0, 0>>, <<0, 0, 0, 0>>>>,
         <<<<0, 1047552, 0, 0>>, <<0, 1047552, 0, 0>>>> >>,
      << \* n = 2
         <<<<0, 0, 0, 0>>, <<0, 0, 0, 0>>, <<0, 0, 0, 0>>>>,
         <<<<0, 1046528, 0, 0>>, <<0, 1046528, 0, 0>>, <<0, 1046528, 0, 0>>>>,
         <<<<0, 1047552, 0, 0>>, <<0, 1047552, 0, 0>>, <<0, 1047552, 0, 0>>>> >>,
      << \* n = 3
         <<<<0, 0, 0, 0>>, <<0, 0, 0, 0>>, <<0, 0, 0, 0>>, <<0, 0, 0, 0>>>>,
         <<<<0, 1045845, 699050, 1398101>>, <<0, 1045845, 699050, 1398101>>, <<0, 1045845, 699050, 1398101>>, <<0, 1045845, 699050, 1398101>>>>,
         <<<<0, 1046869, 699050, 1398101>>, <<0, 1046869, 699050, 1398101>>, <<0, 1046869, 699050, 1398101>>, <<0, 1046869, 699050, 1398101>>>>,
         <<<<0, 1047552, 0, 0>>, <<0, 1047552, 0, 0>>, <<0, 1047552, 0, 0>>, <<0, 1047552, 0, 0>>>> >>,
      << \* n = 4
         <<<<0, 0, 0, 0>>, <<0, 0, 0, 0>>, <<0, 0, 0, 0>>, <<0, 0, 0, 0>>, <<0, 0, 0, 0>>>>,
         <<<<0, 1045504, 0, 0>>, <<0, 1045504, 0, 0>>, <<0, 1045504, 0, 0>>, <<0, 1045504, 0, 0>>, <<0, 1045504, 0, 0>>>>,
         <<<<0, 1046528, 0, 0>>, <<0, 1046528, 0, 0>>, <<0, 1046528, 0, 0>>, <<0, 1046528, 0, 0>>, <<0, 1046528, 0, 0>>>>,
         <<<<0, 1047040, 0, 0>>, <<0, 1047040, 0, 0>>, <<0, 1047040, 0, 0>>, <<0, 1047040, 0, 0>>, <<0, 1047040, 0, 0>>>>,
         <<<<0, 1047552, 0, 0>>, <<0, 1047552, 0, 0>>, <<0, 1047552, 0, 0>>, <<0, 1047552, 0, 0>>, <<0, 1047552, 0, 0>>>> >>,
      << \* n = 5
         <<<<0, 0, 0, 0>>, <<0, 0, 0, 0>>, <<0, 0, 0, 0>>, <<0, 0, 0, 0>>, <<0, 0, 0, 0>>, <<0, 0, 0, 0>>>>,
         <<<<0, 1045094, 838860, 1677722>>, <<0, 1045094, 838860, 1677722>>, <<0, 1045094, 838860, 1677722>>, <<0, 1045094, 838860, 1677722>>, <<0, 1045094, 838860, 1677722>>, <<0, 1045094, 838860, 1677722>>>>,
         <<<<0, 1046118, 838860, 1677722>>, <<0, 1046118, 838860, 1677722>>, <<0, 1046118, 838860, 1677722>>, <<0, 1046118, 838860, 1677722>>, <<0, 1046118, 838860, 1677722>>, <<0, 1046118, 838860, 1677722>>>>,
         <<<<0, 1046732, 1677721, 1258291>>, <<0, 1046732, 1677721, 1258291>>, <<0, 1046732, 1677721, 1258291>>, <<0, 1046732, 1677721, 1258291>>, <<0, 1046732, 1677721, 1258291>>, <<0, 1046732, 1677721, 1258291>>>>,
         <<<<0, 1047142, 838860, 1677722>>, <<0, 1047142, 838860, 1677722>>, <<0, 1047142, 838860, 1677722>>, <<0, 1047142, 838860, 1677722>>, <<0, 1047142, 838860, 1677722>>, <<0, 1047142, 838860, 1677722>>>>,
         <<<<0, 1047552, 0, 0>>, <<0, 1047552, 0, 0>>, <<0, 1047552, 0, 0>>, <<0, 1047552, 0, 0>>, <<0, 1047552, 0, 0>>, <<0, 1047552, 0, 0>>>> >>,
      << \* n = 6
         <<<<0, 0, 0, 0>>, <<0, 0, 0, 0>>, <<0, 0, 0, 0>>, <<0, 0, 0, 0>>, <<0, 0, 0, 0>>, <<0, 0, 0, 0>>, <<0, 0, 0, 0>>>>,
         <<<<0, 1044821, 699050, 1398101>>, <<0, 1044821, 699050, 1398101>>, <<0, 1044821, 699050, 1398101>>, <<0, 1044821, 699050, 1398101>>, <<0, 1044821, 699050, 1398101>>, <<0, 1044821, 699050, 1398101>>, <<0, 1044821, 699050, 1398101>>>>,
         <<<<0, 1045845, 699050, 1398101>>, <<0, 1045845, 699050, 1398101>>, <<0, 1045845, 699050, 1398101>>, <<0, 1045845, 699050, 1398101>>, <<0, 1045845, 699050, 1398101>>, <<0, 1045845, 699050, 1398101>>, <<0, 1045845, 699050, 1398101>>>>,
         <<<<0, 1046528, 0, 0>>, <<0, 1046528, 0, 0>>, <<0, 1046528, 0, 0>>, <<0, 1046528, 0, 0>>, <<0, 1046528, 0, 0>>, <<0, 1046528, 0, 0>>, <<0, 1046528, 0, 0>>>>,
         <<<<0, 1046869, 699050, 1398101>>, <<0, 1046869, 699050, 1398101>>, <<0, 1046869, 699050, 1398101>>, <<0, 1046869, 699050, 1398101>>, <<0, 1046869, 699050, 1398101>>, <<0, 1046869, 699050, 1398101>>, <<0, 1046869, 699050, 1398101>>>>,
         <<<<0, 1047210, 1398101, 699051>>, <<0, 1047210, 1398101, 699051>>, <<0, 1047210, 1398101, 699051>>, <<0, 1047210, 1398101, 699051>>, <<0, 1047210, 1398101, 699051>>, <<0, 1047210, 1398101, 699051>>, <<0, 1047210, 1398101, 699051>>>>,
         <<<<0, 1047552, 0, 0>>, <<0, 1047552, 0, 0>>, <<0, 1047552, 0, 0>>, <<0, 1047552, 0, 0>>, <<0, 1047552, 0, 0>>, <<0, 1047552, 0, 0>>, <<0, 1047552, 0, 0>>>> >> >>

double_scores_2_0 ==
    <<
      << \* n = 1
         <<<<0, 0, 0, 0>>, <<1, 1047552, 0, 0>>>>,
         <<<<0, 1048576, 0, 0>>, <<0, 1047552, 0, 0>>>> >>,
      << \* n = 2
         <<<<0, 0, 0, 0>>, <<1, 1046528, 0, 0>>, <<1, 1047552, 0, 0>>>>,
         <<<<0, 1047552, 0, 0>>, <<0, 1046528, 0, 0>>, <<0, 0, 0, 0>>>>,
         <<<<0, 1048576, 0, 0>>, <<0, 1048064, 0, 0>>, <<0, 1047552, 0, 0>>>> >>,
      << \* n = 3
         <<<<0, 0, 0, 0>>, <<1, 1045845, 699050, 1398101>>, <<1, 1046869, 699050, 1398101>>, <<1, 1047552, 0, 0>>>>,
         <<<<0, 1046869, 699050, 1398101>>, <<0, 1045845, 699050, 1398101>>, <<0, 0, 0, 0>>, <<1, 1045845, 699050, 1398102>>>>,
         <<<<0, 1047893, 699050, 1398101>>, <<0, 1047552, 0, 0>>, <<0, 1046869, 699050, 1398101>>, <<0, 1045845, 699050, 1398100>>>>,
         <<<<0, 1048576, 0, 0>>, <<0, 1048234, 1398101, 699051>>, <<0, 1047893, 699050, 1398102>>, <<0, 1047552, 0, 0>>>> >>,
      << \* n = 4
         <<<<0, 0, 0, 0>>, <<1, 1045504, 0, 0>>, <<1, 1046528, 0, 0>>, <<1, 1047040, 0, 0>>, <<1, 1047552, 0, 0>>>>,
         <<<<0, 1046528, 0, 0>>, <<0, 1045504, 0, 0>>, <<0, 0, 0, 0>>, <<1, 1045504, 0, 0>>, <<1, 1046528, 0, 0>>>>,
         <<<<0, 1047552, 0, 0>>, <<0, 1047040, 0, 0>>, <<0, 1046528, 0, 0>>, <<0, 1045504, 0, 0>>, <<0, 0, 0, 0>>>>,
         <<<<0, 1048064, 0, 0>>, <<0, 1047808, 0, 0>>, <<0, 1047552, 0, 0>>, <<0, 1047040, 0, 0>>, <<0, 1046528, 0, 0>>>>,
         <<<<0, 1048576, 0, 0>>, <<0, 1048320, 0, 0>>, <<0, 1048064, 0, 0>>, <<0, 1047808, 0, 0>>, <<0, 1047552, 0, 0>>>> >>,
      << \* n = 5
         <<<<0, 0, 0, 0>>, <<1, 1045094, 838860, 1677722>>, <<1, 1046118, 838860, 1677722>>, <<1, 1046732, 1677721, 1258291>>, <<1, 1047142, 838860, 1677722>>, <<1, 1047552, 0, 0>>>>,
         <<<<0, 1046118, 838860, 1677722>>, <<0, 1045094, 838860, 1677722>>, <<0, 0, 0, 0>>, <<1, 1045094, 838860, 1677720>>, <<1, 1046118, 838860, 1677722>>, <<1, 1046732, 1677721, 1258291>>>>,
         <<<<0, 1047142, 838860, 1677722>>, <<0, 1046732, 1677721, 1258292>>, <<0, 1046118, 838860, 1677722>>, <<0, 1045094, 838860, 1677724>>, <<0, 0, 0, 0>>, <<1, 1045094, 838860, 1677720>>>>,
         <<<<0, 1047756, 1677721, 1258291>>, <<0, 1047552, 0, 0>>, <<0, 1047142, 838860, 1677721>>, <<0, 1046732, 1677721, 1258291>>, <<0, 1046118, 838860, 1677720>>, <<0, 1045094, 838860, 1677720>>>>,
         <<<<0, 1048166, 838860, 1677722>>, <<0, 1047961, 1258291, 419431>>, <<0, 1047756, 1677721, 1258292>>, <<0, 1047552, 0, 0>>, <<0, 1047142, 838860, 1677722>>, <<0, 1046732, 1677721, 1258292>>>>,
         <<<<0, 1048576, 0, 0>>, <<0, 1048371, 419430, 838861>>, <<0, 1048166, 838860, 1677722>>, <<0, 1047961, 1258291, 419430>>, <<0, 1047756, 1677721, 1258291>>, <<0, 1047552, 0, 0>>>> >>,
      << \* n = 6
         <<<<0, 0, 0, 0>>, <<1, 1044821, 699050, 1398101>>, <<1, 1045845, 699050, 1398101>>, <<1, 1046528, 0, 0>>, <<1, 1046869, 699050, 1398101>>, <<1, 1047210, 1398101, 699051>>, <<1, 1047552, 0, 0>>>>,
         <<<<0, 1045845, 699050, 1398101>>, <<0, 1044821, 699050, 1398101>>, <<0, 0, 0, 0>>, <<1, 1044821, 699050, 1398102>>, <<1, 1045845, 699050, 1398101>>, <<1, 1046528, 0, 0>>, <<1, 1046869, 699050, 1398102>>>>,
         <<<<0, 1046869, 699050, 1398101>>, <<0, 1046528, 0, 0>>, <<0, 1045845, 699050, 1398101>>, <<0, 1044821, 699050, 1398100>>, <<0, 0, 0, 0>>, <<1, 1044821, 699050, 1398104>>, <<1, 1045845, 699050, 1398102>>>>,
         <<<<0, 1047552, 0, 0>>, <<0, 1047210, 1398101, 699051>>, <<0, 1046869, 699050, 1398102>>, <<0, 1046528, 0, 0>>, <<0, 1045845, 699050, 1398102>>, <<0, 1044821, 699050, 1398100>>, <<0, 0, 0, 0>>>>,
         <<<<0, 1047893, 699050, 1398101>>, <<0, 1047722, 1398101, 699050>>, <<0, 1047552, 0, 0>>, <<0, 1047210, 1398101, 699050>>, <<0, 1046869, 699050, 1398101>>, <<0, 1046527, 2097151, 2097150>>, <<0, 1045845, 699050, 1398100>>>>,
         <<<<0, 1048234, 1398101, 699051>>, <<0, 1048064, 0, 0>>, <<0, 1047893, 699050, 1398102>>, <<0, 1047722, 1398101, 699051>>, <<0, 1047552, 0, 0>>, <<0, 1047210, 1398101, 699051>>, <<0, 1046869, 699050, 1398102>>>>,
         <<<<0, 1048576, 0, 0>>, <<0, 1048405, 699050, 1398101>>, <<0, 1048234, 1398101, 699051>>, <<0, 1048064, 0, 0>>, <<0, 1047893, 699050, 1398102>>, <<0, 1047722, 1398101, 699050>>, <<0, 1047552, 0, 0>>>> >> >>

double_score(alpha, rv, rb, n) ==
    CASE alpha = "0.0" -> double_scores_0_0[n][rv + 1][rb + 1]
      [] alpha = "0.5" -> double_scores_0_5[n][rv + 1][rb + 1]
      [] alpha = "1.0" -> double_scores_1_0[n][rv + 1][rb + 1]
      [] alpha = "2.0" -> double_scores_2_0[n][rv + 1][rb + 1]

\* x < y on floats (no negative zero occurs among the scores)
DoubleLess(x, y) ==
    LET Below(a, b) ==
            \/ a[2] < b[2]
            \/ a[2] = b[2] /\ a[3] < b[3]
            \/ a[2] = b[2] /\ a[3] = b[3] /\ a[4] < b[4]
    IN  IF x[1] # y[1] THEN x[1] = 1
        ELSE IF x[1] = 0 THEN Below(x, y)
        ELSE Below(y, x)

Range(seq) == {seq[i] : i \in 1..Len(seq)}

\* a rank lookup for which an id missing from the list is as good as its best
rank_get_lenient(rows, rid, default) ==
    IF rid \in Range(rows)
    THEN (CHOOSE i \in 1..Len(rows) :
             rows[i] = rid /\ \A j \in 1..Len(rows) : rows[j] = rid => j <= i) - 1
    ELSE 0

\* rank_v = {id: i for i, r in enumerate(rows)}; rank_v.get(rid, default)
rank_get(rows, rid, default) ==
    IF rid \in Range(rows)
    THEN (CHOOSE i \in 1..Len(rows) :
             rows[i] = rid /\ \A j \in 1..Len(rows) : rows[j] = rid => j <= i) - 1
    ELSE default

\* for r in rows_v + rows_b: if rid not in ids: ids.append(rid)
RECURSIVE AppendNew(_, _)
AppendNew(ids, rows) ==
    IF rows = <<>> THEN ids
    ELSE AppendNew(IF Head(rows) \in Range(ids) THEN ids ELSE Append(ids, Head(rows)),
                   Tail(rows))

\* the list fused before it is sorted
fused_list(rows_v, rows_b, n, alpha) ==
    LET ids == AppendNew(<<>>, rows_v \o rows_b)
    IN  [k \in 1..Len(ids) |->
            [id |-> ids[k],
             score |-> double_score(alpha, rank_get(rows_v, ids[k], n),
                                    rank_get(rows_b, ids[k], n), n)]]

\* a list left in reverse order of arrival, the scores not looked at
InsertSorted_front(sorted, x) == <<x>> \o sorted

\* list.sort(key=...): ascending and stable
RECURSIVE InsertSorted(_, _)
InsertSorted(sorted, x) ==
    IF sorted = <<>> THEN <<x>>
    ELSE IF DoubleLess(x.score, sorted[Len(sorted)].score)
    THEN Append(InsertSorted(SubSeq(sorted, 1, Len(sorted) - 1), x), sorted[Len(sorted)])
    ELSE Append(sorted, x)

RECURSIVE SortFrom(_, _, _)
SortFrom(sorted, fused, k) ==
    IF k > Len(fused) THEN sorted
    ELSE SortFrom(InsertSorted(sorted, fused[k]), fused, k + 1)

search_snippets_hybrid(rows_v, rows_b, topk, n, alpha) ==
    LET fused == SortFrom(<<>>, fused_list(rows_v, rows_b, n, alpha), 1)
    IN  SubSeq(fused, 1, IF topk < Len(fused) THEN topk ELSE Len(fused))

\* the rows a query with LIMIT n can return
RowLists(n) ==
    {rows \in UNION {[1..len -> SnippetIds] : len \in 0..Cardinality(SnippetIds)} :
        /\ Len(rows) <= n
        /\ \A i \in 1..Len(rows), j \in 1..Len(rows) : rows[i] = rows[j] => i = j}

InitFusion ==
    /\ QueueIdle
    /\ \E n \in 1..MaxPool :
          args \in [rows_v : RowLists(n), rows_b : RowLists(n), topk : 0..MaxTopK,
                    n : {n}, alpha : Weights]
    /\ returned = <<>>
    /\ ClientIdle

\* one call; a second call with the same inputs follows
search ==
    /\ Len(returned) < 2
    /\ returned' = Append(returned,
                          search_snippets_hybrid(args.rows_v, args.rows_b, args.topk,
                                                 args.n, args.alpha))
    /\ UNCHANGED <<queue_vars, args, client_vars>>

NextFusion == search

SpecFusion == InitFusion /\ [][NextFusion]_vars

----------------------------------------------------------------------------
(* The hybrid search with queries that can raise, as the section loop of   *)
(* routers/ingest_generate.py calls it (no uploaded text at hand) and as   *)
(* stream_section receives its outcome.  db.execute raises when a query    *)
(* fails; search_snippets_hybrid has no try statement.                     *)

RetrievalPool == 2

NoExcerpts == "[No excerpts available]"

NoContent == "[No content available]"

\* the text column of a row
snippet_text(id) == "snippet " \o ToString(id)

\* "\n".join(hit_texts)
RECURSIVE join_texts(_)
join_texts(hits) ==
    IF hits = <<>> THEN ""
    ELSE IF Len(hits) = 1 THEN snippet_text(hits[1].id)
    ELSE snippet_text(hits[1].id) \o "\n" \o join_texts(Tail(hits))

\* search_snippets_hybrid: the vector query runs first, the lexical query
\* second, and an exception of either leaves the function
search_snippets_hybrid_db(vector_raises, lexical_raises, rows_v, rows_b, topk, n, alpha) ==
    IF vector_raises \/ lexical_raises
    THEN [raised |-> TRUE, hits |-> <<>>]
    ELSE [raised |-> FALSE, hits |-> search_snippets_hybrid(rows_v, rows_b, topk, n, alpha)]

\* the excerpt the section loop builds from the search
excerpt_of(outcome) ==
    IF outcome.raised THEN ""
    ELSE IF outcome.hits = <<>> THEN NoContent
    ELSE join_texts(outcome.hits)

\* stream_section: source_content
source_content(source_excerpt) ==
    IF source_excerpt = "" THEN NoExcerpts ELSE source_excerpt

InitRetrieval ==
    /\ QueueIdle
    /\ args \in [rows_v : RowLists(RetrievalPool), rows_b : RowLists(RetrievalPool),
                  topk : 1..MaxTopK, n : {RetrievalPool}, alpha : {"0.5"},
                  vector_raises : BOOLEAN, lexical_raises : BOOLEAN]
    /\ returned = <<>>
    /\ ClientIdle

\* one section: the search, then the prompt construction
retrieve ==
    /\ Len(returned) < 1
    /\ LET outcome == search_snippets_hybrid_db(args.vector_raises, args.lexical_raises,
                                                 args.rows_v, args.rows_b, args.topk,
                                                 args.n, args.alpha)
       IN  returned' = Append(returned,
                              [raised |-> outcome.raised, hits |-> outcome.hits,
                               source_content |-> source_content(excerpt_of(outcome))])
    /\ UNCHANGED <<queue_vars, args, client_vars>>

NextRetrieval == retrieve

SpecRetrieval == InitRetrieval /\ [][NextRetrieval]_vars

----------------------------------------------------------------------------
(* HybridModelClient: its steps.                                           *)
(*                                                                         *)
(* stream_generate_async is an asynchronous generator run on one event     *)
(* loop: calling it runs nothing, and once resumed its body runs from one  *)
(* await to the next.  In _get_best_instance the awaits are the probes,    *)
(* and now is read once, before the loop.  From the return of the last     *)
(* probe to the increment of active_requests there is no await.  When the  *)
(* generation fails the generator yields the error text inside its except  *)
(* clause and runs its finally clause when it is resumed.                  *)
(*                                                                         *)
(* A record probed after a call read now has last_check later than that    *)
(* now: the difference is negative, its .seconds is 86399 or so, and the   *)
(* call probes the instance again.  Each call carries the names it is to   *)
(* probe in stale.                                                         *)
(*                                                                         *)
(* priority and estimated_duration are first read after the loop (line     *)
(* 96): the model draws them there.                                        *)

\* response times measured by probes that answered
ResponseTimes == {1, 4}

ProbeOutcomes == {"200", "500", "exception"}

PriorityHints == {"normal", "high", "critical", "fast"}

EstimatedDurations == {20, 60}

\* the arguments of the calls
CallArguments == [priority : PriorityHints, estimated_duration : EstimatedDurations]

\* response_time is the time the probe took; it is recorded when the answer
\* is 200
check_instance_health(health, instance_name, outcome, response_time) ==
    [health EXCEPT ![instance_name] =
        [@ EXCEPT !.last_check = "within",
                  !.healthy = (outcome = "200"),
                  !.response_time = IF outcome = "200" THEN response_time
                                    ELSE UnhealthyResponseTime]]

Available(health, name) ==
    health[name].healthy /\ health[name].active_requests < instance_limits[name]

healthy_instances(health) ==
    SelectSeq(InstanceNames, LAMBDA name : Available(health, name))

\* the first name of order found in names, "None" when there is none
FirstIn(order, names) ==
    IF \E k \in 1..Len(order) : order[k] \in Range(names)
    THEN order[CHOOSE k \in 1..Len(order) :
                  /\ order[k] \in Range(names)
                  /\ \A j \in 1..(k - 1) : order[j] \notin Range(names)]
    ELSE "None"

\* ten times active_requests + response_time * 0.1
Load(data) == 10 * data.active_requests + data.response_time

\* the head of names after the stable sort by load
LeastLoaded(health, names) ==
    names[CHOOSE k \in 1..Len(names) :
             /\ \A j \in 1..Len(names) :
                   Load(health[names[k]]) <= Load(health[names[j]])
             /\ \A j \in 1..(k - 1) :
                   Load(health[names[k]]) < Load(health[names[j]])]

ChosenName(health, available, priority, estimated_duration) ==
    IF priority = "high"
    THEN FirstIn(<<"primary", "secondary", "fast">>, available)
    ELSE IF priority = "fast" \/ estimated_duration < QuickDuration
    THEN FirstIn(<<"fast", "secondary", "primary">>, available)
    ELSE LeastLoaded(health, available)

\* _get_best_instance from the end of its loop on
get_best_instance(health, priority, estimated_duration) ==
    LET available == healthy_instances(health)
        name == ChosenName(health, available, priority, estimated_duration)
    IN  IF available = <<>> THEN default_url
        ELSE IF name = "None" THEN default_url
        ELSE url_map[name]

\* the instance a call is counted on: the first whose url is the one chosen
instance_of(instance_url) ==
    IF \E k \in 1..Len(InstanceNames) : url_map[InstanceNames[k]] = instance_url
    THEN InstanceNames[CHOOSE k \in 1..Len(InstanceNames) :
                          /\ url_map[InstanceNames[k]] = instance_url
                          /\ \A j \in 1..(k - 1) : url_map[InstanceNames[j]] # instance_url]
    ELSE "None"

Least(places) == CHOOSE k \in places : \A j \in places : k <= j

\* call c, its record being cs[c], goes on with the loop at place k: up to
\* the next probe or, none being left, through the choice of the instance and
\* the increment of its count
Resume(c, cs, health, k) ==
    LET rest == {j \in k..Len(InstanceNames) : InstanceNames[j] \in cs[c].stale}
    IN  IF rest # {}
        THEN /\ calls' = [cs EXCEPT ![c].pc = "probe",
                                    ![c].position = Least(rest),
                                    ![c].stale = {InstanceNames[j] : j \in rest}]
             /\ instance_health' = health
        ELSE \E instance_url \in {get_best_instance(health, given.priority,
                                                     given.estimated_duration) :
                                      given \in CallArguments} :
                LET instance_name == instance_of(instance_url)
                IN  /\ calls' = [cs EXCEPT ![c] =
                                    [IdleCall EXCEPT !.pc = "stream",
                                                     !.instance_url = instance_url,
                                                     !.instance_name = instance_name]]
                    /\ instance_health' =
                          IF instance_name = "None" THEN health
                          ELSE [health EXCEPT ![instance_name].active_requests = @ + 1]

\* the finally clause
Release(health, instance_name) ==
    IF instance_name = "None" THEN health
    ELSE [health EXCEPT ![instance_name].active_requests =
                            IF @ - 1 > 0 THEN @ - 1 ELSE 0]

\* the c-th call, from its first resumption: now is read and the loop begins
stream_generate_async(c) ==
    /\ calls[c].pc = "idle"
    /\ \A d \in 1..(c - 1) : calls[d].pc # "idle"
    /\ LET stale == {name \in Instances : instance_health[name].last_check # "within"}
       IN  Resume(c, [calls EXCEPT ![c].stale = stale], instance_health, 1)
    /\ UNCHANGED <<default_url, queue_vars, args, returned>>

\* the probe a call waits for ends
probe_returns(c) ==
    /\ calls[c].pc = "probe"
    /\ LET name == InstanceNames[calls[c].position]
       IN  \E health \in {check_instance_health(instance_health, name, outcome, response_time) :
                             outcome \in ProbeOutcomes, response_time \in ResponseTimes} :
          LET later == [d \in 1..MaxCalls |->
                          IF d # c /\ calls[d].pc = "probe"
                                   /\ calls[d].position < calls[c].position
                          THEN [calls[d] EXCEPT !.stale = @ \cup {name}]
                          ELSE calls[d]]
          IN  Resume(c, later, health, calls[c].position + 1)
    /\ UNCHANGED <<default_url, queue_vars, args, returned>>

\* the stream ends with done
generation_returns(c) ==
    /\ calls[c].pc = "stream"
    /\ instance_health' = Release(instance_health, calls[c].instance_name)
    /\ calls' = [calls EXCEPT ![c] = EndedCall]
    /\ UNCHANGED <<default_url, queue_vars, args, returned>>

\* the post or the stream raises: the error text is yielded
generation_raises(c) ==
    /\ calls[c].pc = "stream"
    /\ calls' = [calls EXCEPT ![c].pc = "failed"]
    /\ UNCHANGED <<instance_health, default_url, queue_vars, args, returned>>

\* the generator is resumed after the error text
generator_closes(c) ==
    /\ calls[c].pc = "failed"
    /\ instance_health' = Release(instance_health, calls[c].instance_name)
    /\ calls' = [calls EXCEPT ![c] = EndedCall]
    /\ UNCHANGED <<default_url, queue_vars, args, returned>>

\* a minute passes: (now - last_check).seconds gets over 60 for the records
\* within it
elapse ==
    /\ \E name \in Instances : instance_health[name].last_check = "within"
    /\ instance_health' =
          [name \in Instances |->
              IF instance_health[name].last_check = "within"
              THEN [instance_health[name] EXCEPT !.last_check = "over"]
              ELSE instance_health[name]]
    /\ UNCHANGED <<calls, default_url, queue_vars, args, returned>>

\* a day passes, which no call outlasts (a probe is given 5 s, a generation
\* 300 s): .seconds leaves the days out and starts again from 0
elapse_day ==
    /\ \A c \in 1..MaxCalls : calls[c].pc \in {"idle", "ended"}
    /\ \E name \in Instances : instance_health[name].last_check = "over"
    /\ instance_health' =
          [name \in Instances |->
              IF instance_health[name].last_check = "over"
              THEN [instance_health[name] EXCEPT !.last_check = "within"]
              ELSE instance_health[name]]
    /\ UNCHANGED <<calls, default_url, queue_vars, args, returned>>

InitClient ==
    /\ QueueIdle
    /\ args = <<>>
    /\ returned = <<>>
    /\ instance_health = [name \in Instances |-> InitialHealth]
    /\ calls = [c \in 1..MaxCalls |-> IdleCall]
    /\ default_url \in DefaultUrls

NextClient ==
    \/ \E c \in 1..MaxCalls : stream_generate_async(c)
    \/ \E c \in 1..MaxCalls : probe_returns(c)
    \/ \E c \in 1..MaxCalls : generation_returns(c)
    \/ \E c \in 1..MaxCalls : generation_raises(c)
    \/ \E c \in 1..MaxCalls : generator_closes(c)
    \/ elapse
    \/ elapse_day

SpecClient == InitClient /\ [][NextClient]_vars

----------------------------------------------------------------------------
(* _get_best_instance from the end of its loop on (lines 85-133) is a      *)
(* function of the health records, the two arguments and default_url: it   *)
(* is applied to every combination of records a probed client can hold     *)
(* with its counts within the limits.                                      *)

HealthRecords(name) ==
    {[last_check |-> "within", healthy |-> response_time # UnhealthyResponseTime,
      response_time |-> response_time, active_requests |-> active] :
        active \in 0..instance_limits[name],
        response_time \in ResponseTimes \cup {UnhealthyResponseTime}}

InitSelect ==
    /\ QueueIdle
    /\ calls = [c \in 1..MaxCalls |-> IdleCall]
    /\ instance_health \in [primary : HealthRecords("primary"),
                             secondary : HealthRecords("secondary"),
                             fast : HealthRecords("fast")]
    /\ default_url \in DefaultUrls
    /\ args \in CallArguments
    /\ returned = <<>>

select ==
    /\ returned = <<>>
    /\ returned' = <<get_best_instance(instance_health, args.priority,
                                       args.estimated_duration)>>
    /\ UNCHANGED <<queue_vars, args, client_vars>>

NextSelect == select

SpecSelect == InitSelect /\ [][NextSelect]_vars

----------------------------------------------------------------------------
(* Vocabulary of the properties *)

LaneRequests(priority) ==
    {queues[priority][i] : i \in 1..Len(queues[priority])}

Waiting == UNION {LaneRequests(priority) : priority \in RequestPriority}

Running == UNION {active_requests[instance] : instance \in ModelInstance}

WaitingFor(instance) == {r \in Waiting : determine_model_instance(r) = instance}

\* a step that is a call of add_request; last' holds the request and the answer
AddRequestStep == next_id' = next_id + 1

\* what Redis holds for the request's fingerprint before the call
CacheEntry(request) == redis_get(cache, get_cache_key(request))

ClaimedCapacity(instance) ==
    CASE instance = "priority" -> 2
      [] instance = "normal" -> 2
      [] instance = "fast" -> 3

ClaimedUserLimit(tier) ==
    CASE tier = "free" -> 3
      [] tier = "premium" -> 8
      [] tier = "enterprise" -> 15
      [] OTHER -> 3

----------------------------------------------------------------------------
(* C1: in every reachable state each instance holds at most its capacity   *)
(* limit of active requests (priority 2, normal 2, fast 3).                *)
C1_ActiveWithinCapacity ==
    \A instance \in ModelInstance :
        Cardinality(active_requests[instance]) <= ClaimedCapacity(instance)

\* a drain pass has just run with all three instances full and, for each of
\* them, a request left waiting that targets it
C1_Witness ==
    /\ last.op = "process_queues"
    /\ \A instance \in ModelInstance :
          /\ Cardinality(active_requests[instance]) = ClaimedCapacity(instance)
          /\ WaitingFor(instance) # {}

----------------------------------------------------------------------------
(* C2: a call of add_request without a cache hit, by a user whose counter  *)
(* is at or above the limit of the request's tier, is answered FAILED with *)
(* the rate-limit reason naming that limit, and changes neither the lanes  *)
(* nor the counters.                                                       *)
C2_RateLimitRejects ==
    [][ ( /\ AddRequestStep
          /\ ~Truthy(CacheEntry(last'.request))
          /\ UserActive(user_active_requests, last'.request.user_id)
                >= ClaimedUserLimit(last'.request.user_tier) )
        => ( /\ last'.status = FAILED
             /\ last'.payload =
                   "User rate limit exceeded ("
                     \o ToString(ClaimedUserLimit(last'.request.user_tier))
                     \o " concurrent requests)"
             /\ queues' = queues
             /\ user_active_requests' = user_active_requests ) ]_vars

\* the fourth call of a free-tier user whose first three requests are all
\* still waiting or active has been rejected
C2_Witness ==
    /\ last.op = "add_request"
    /\ last.status = FAILED
    /\ last.request.user_tier = "free"
    /\ last.payload = RateLimitReason(3)
    /\ Cardinality({r \in Waiting \cup Running :
                       r.user_id = last.request.user_id}) = 3
    /\ last.request \notin Waiting \cup Running

----------------------------------------------------------------------------
----------------------------------------------------------------------------
----------------------------------------------------------------------------
\* a step that runs a _process_request task, and one that runs a drain pass
ProcessRequestStep ==
    /\ tasks # <<>>
    /\ Head(tasks).kind = "process_request"
    /\ last'.op = "process_request"

DrainStep ==
    /\ tasks # <<>>
    /\ Head(tasks).kind = "process_queues"
    /\ last'.op = "process_queues"

OwnedBy(user_id, requests) == {r \in requests : r.user_id = user_id}

(* C5: when the execution of a dispatched request ends, a terminal record  *)
(* is written, the request leaves its instance's active set, its owner's   *)
(* counter goes down by exactly one, and a drain pass has run, so that no  *)
(* lane head is left waiting for an instance with a free slot.             *)
C5_ExecutionEndCleansUp ==
    [][ ProcessRequestStep =>
        LET request == Head(tasks).request
        IN  /\ request.request_id \in DOMAIN status_keys'
            /\ status_keys'[request.request_id] \in {COMPLETED, FAILED}
            /\ request.request_id \in DOMAIN result_keys'
            /\ request \notin Running'
            /\ UserActive(user_active_requests', request.user_id)
                  = UserActive(user_active_requests, request.user_id) - 1
            /\ \A priority \in RequestPriority :
                  queues'[priority] # <<>> =>
                      Cardinality(active_requests'[
                          determine_model_instance(Head(queues'[priority]))])
                        >= ClaimedCapacity(
                          determine_model_instance(Head(queues'[priority]))) ]_vars

----------------------------------------------------------------------------
(* C6: in every reachable state each user's counter equals the number of   *)
(* that user's requests waiting in the lanes plus the number of that       *)
(* user's requests in the active sets.                                     *)
C6_CounterCountsWaitingAndActive ==
    \A user_id \in DOMAIN user_active_requests
                   \cup {r.user_id : r \in Waiting \cup Running} :
        UserActive(user_active_requests, user_id)
          = Cardinality(OwnedBy(user_id, Waiting))
              + Cardinality(OwnedBy(user_id, Running))

\* a user owns a waiting request and an active request whose execution has
\* already ended, and another user owns a request too
C6_Witness ==
    \E r1 \in Running, r2 \in Waiting, r3 \in Waiting \cup Running :
        /\ r1.user_id = r2.user_id
        /\ r3.user_id # r1.user_id
        /\ r1.request_id \in DOMAIN status_keys
        /\ UserActive(user_active_requests, r1.user_id) = 2

----------------------------------------------------------------------------
\* RequestPriority's values: LOW = 0 .. CRITICAL = 3
PriorityValue(priority) ==
    CASE priority = "LOW" -> 0
      [] priority = "NORMAL" -> 1
      [] priority = "HIGH" -> 2
      [] priority = "CRITICAL" -> 3

FreeSlots(instance) ==
    ClaimedCapacity(instance) - Cardinality(active_requests[instance])

\* two waiting requests of different priority that target the same
\* instance, which has exactly one free slot
Compete(r1, r2) ==
    /\ PriorityValue(r1.priority) > PriorityValue(r2.priority)
    /\ determine_model_instance(r1) = determine_model_instance(r2)
    /\ FreeSlots(determine_model_instance(r1)) = 1

(* C7, as stated: whenever two waiting requests of different priority      *)
(* target the same instance and that instance has exactly one free slot, a *)
(* drain pass dispatches the higher-priority one and leaves the other      *)
(* waiting.                                                                *)
C7_StrictPriority ==
    [][ DrainStep =>
        \A r1 \in Waiting, r2 \in Waiting :
            Compete(r1, r2) =>
                /\ r1 \in active_requests'[determine_model_instance(r1)]
                /\ r2 \in Waiting' ]_vars

(* C7, amended: whenever the request at the head of a lane and a waiting   *)
(* request of lower priority target the same instance and that instance    *)
(* has exactly one free slot, a drain pass dispatches the former and       *)
(* leaves the latter waiting.                                              *)
C7_HeadPriority ==
    [][ DrainStep =>
        \A priority \in RequestPriority :
            queues[priority] # <<>> =>
                LET r1 == Head(queues[priority])
                IN  \A r2 \in WaitingFor(determine_model_instance(r1)) :
                        Compete(r1, r2) =>
                            /\ r1 \in active_requests'[determine_model_instance(r1)]
                            /\ r2 \in Waiting' ]_vars

\* a drain pass has just given the only free slot of an instance to the head
\* of a lane while a request of a lower lane for that instance stays waiting
C7_Witness ==
    /\ last.op = "process_queues"
    /\ \E k \in 1..Len(last.created), r2 \in Waiting :
          LET r1 == last.created[k].request
              instance == last.created[k].instance
          IN  /\ PriorityValue(r1.priority) > PriorityValue(r2.priority)
              /\ determine_model_instance(r2) = instance
              /\ r1 \in active_requests[instance]
              /\ Cardinality(active_requests[instance]) = ClaimedCapacity(instance)
              /\ \A j \in 1..Len(last.created) :
                    j # k => /\ last.created[j].instance # instance
                            /\ (j < k => last.created[j].request.priority # r1.priority)

----------------------------------------------------------------------------
(* C8: within one lane requests are dispatched in the order of their       *)
(* acceptance: no request is in an active set while a request of the same  *)
(* priority that was accepted before it is still waiting.                  *)
C8_LaneFifo ==
    \A r1 \in Waiting, r2 \in Running :
        r1.priority = r2.priority => r2.request_id < r1.request_id

\* a drain pass has just dispatched a request and left a later request of
\* the same lane waiting
C8_Witness ==
    /\ last.op = "process_queues"
    /\ \E k \in 1..Len(last.created), r2 \in Waiting :
          /\ last.created[k].request.priority = r2.priority
          /\ last.created[k].request.request_id < r2.request_id
          /\ last.created[k].request \in Running

----------------------------------------------------------------------------
(* C9: a call of add_request without a cache hit by a user below the rate  *)
(* limit is answered FAILED with the overloaded reason when the lanes hold *)
(* more than 100 requests and QUEUED otherwise; a call that violates both  *)
(* limits gets the rate-limit reason.                                      *)
C9_GlobalCeiling ==
    [][ ( /\ AddRequestStep
          /\ ~Truthy(CacheEntry(last'.request)) )
        => LET overLimit ==
                   UserActive(user_active_requests, last'.request.user_id)
                     >= ClaimedUserLimit(last'.request.user_tier)
               overloaded == Cardinality(Waiting) > 100
           IN  /\ (~overLimit /\ overloaded) =>
                     /\ last'.status = FAILED
                     /\ last'.payload = "System overloaded, please try again later"
               /\ (~overLimit /\ ~overloaded) =>
                     /\ last'.status = QUEUED
                     /\ last'.request \in Waiting'
               /\ (overLimit /\ overloaded) =>
                     /\ last'.status = FAILED
                     /\ last'.payload = RateLimitReason(
                            ClaimedUserLimit(last'.request.user_tier)) ]_vars

\* a call by a user below the rate limit has been refused as overloaded
C9_Witness ==
    /\ last.op = "add_request"
    /\ last.status = FAILED
    /\ last.payload = OverloadedReason
    /\ Cardinality(Waiting) > 100
    /\ UserActive(user_active_requests, last.request.user_id)
          < ClaimedUserLimit(last.request.user_tier)

----------------------------------------------------------------------------
(* C10: a status query reports queued for a request waiting in a lane,     *)
(* processing for a request in an active set whose terminal record is not  *)
(* yet written, and the terminal status with its payload once it is; an    *)
(* accepted request that has not finished is never reported failed.        *)
C10_StatusReportsLifecycle ==
    /\ \A r \in Waiting : get_request_status(r.request_id)[1] = QUEUED
    /\ \A r \in Running :
          IF r.request_id \in DOMAIN status_keys
          THEN get_request_status(r.request_id)
                 = <<status_keys[r.request_id], <<result_keys[r.request_id]>> >>
          ELSE get_request_status(r.request_id)[1] = PROCESSING

----------------------------------------------------------------------------
\* two requests with the same prompt, model and template
Identical(a, b) ==
    /\ a.prompt = b.prompt
    /\ a.model = b.model
    /\ a.template = b.template

\* the number of requests in the lanes above a lane
HigherLanes(priority) ==
    LET Count(p) == IF PriorityValue(p) > PriorityValue(priority)
                    THEN Len(queues[p]) ELSE 0
    IN  Count("CRITICAL") + Count("HIGH") + Count("NORMAL") + Count("LOW")

PositionsAsClaimed ==
    /\ \A priority \in RequestPriority :
          LET higher == HigherLanes(priority)
          IN  \A i \in 1..Len(queues[priority]) :
                  get_user_queue_position(queues[priority][i].user_id,
                                          queues[priority][i].request_id)
                    = higher + (i - 1)
    /\ \A r \in Running :
          get_user_queue_position(r.user_id, r.request_id) = 0
    /\ LET known == {r.request_id : r \in Waiting \cup Running}
       IN  \A request_id \in (0..next_id) \ known :
               get_user_queue_position(0, request_id) = -1

(* C11: the queue position of a waiting request is the number of requests  *)
(* in the higher lanes plus the number ahead of it in its own lane, 0 for  *)
(* a request in an active set and -1 for any other; a request submitted to *)
(* an empty manager is answered QUEUED at position 0, and a request        *)
(* identical to one still waiting in the same lane is not answered CACHED  *)
(* and, when accepted, is at a greater position than that one.             *)
C11_QueuePosition ==
    /\ []PositionsAsClaimed
    /\ [][ AddRequestStep =>
            LET B == last'.request
                position == PositionFrom(1, 0, queues', active_requests', B.request_id)
            IN  /\ (Waiting \cup Running = {} /\ ~Truthy(CacheEntry(B))) =>
                      /\ last'.status = QUEUED
                      /\ position = 0
                /\ \A A \in LaneRequests(B.priority) :
                      Identical(A, B) =>
                          /\ last'.status # CACHED
                          /\ last'.status = QUEUED =>
                                position > PositionFrom(1, 0, queues', active_requests',
                                                        A.request_id)
                          /\ ( /\ UserActive(user_active_requests, B.user_id)
                                     < ClaimedUserLimit(B.user_tier)
                               /\ Cardinality(Waiting) <= 100 ) =>
                                last'.status = QUEUED ]_vars

\* a request identical to one that waits in the same lane has been queued
\* behind it, with requests waiting in a higher lane as well
C11_Witness ==
    /\ last.op = "add_request"
    /\ last.status = QUEUED
    /\ \E A \in LaneRequests(last.request.priority) :
          /\ A # last.request
          /\ Identical(A, last.request)
          /\ get_user_queue_position(A.user_id, A.request_id) > 0
          /\ get_user_queue_position(last.request.user_id, last.request.request_id)
                > get_user_queue_position(A.user_id, A.request_id)
          /\ \E q \in Waiting :
                PriorityValue(q.priority) > PriorityValue(A.priority)

----------------------------------------------------------------------------
(* C12: two requests constructed with the same prompt, model and template  *)
(* have the same content_hash and the same cache key, whatever their       *)
(* request id, user, priority, tier, estimated duration, creation time and *)
(* the content_hash passed to the constructor.                             *)
C12_FingerprintOfContentOnly ==
    (returned # <<>> /\ Identical(args[1], args[2])) =>
        /\ returned[1].content_hash = returned[2].content_hash
        /\ get_cache_key(returned[1]) = get_cache_key(returned[2])

\* two requests were constructed that agree in prompt, model and template
\* and differ in every other argument
C12_Witness ==
    /\ returned # <<>>
    /\ Identical(args[1], args[2])
    /\ args[1].request_id # args[2].request_id
    /\ args[1].user_id # args[2].user_id
    /\ args[1].priority # args[2].priority
    /\ args[1].user_tier # args[2].user_tier
    /\ args[1].estimated_duration # args[2].estimated_duration
    /\ args[1].created_at # args[2].created_at
    /\ args[1].content_hash # args[2].content_hash
    /\ returned[1].content_hash = content_hash(args[2].prompt, args[2].model,
                                             args[2].template)

----------------------------------------------------------------------------
(* Vocabulary of the retrieval properties *)

\* the fusion weight in quarters, as an exact number
WeightQuarters(alpha) ==
    CASE alpha = "0.0" -> 0
      [] alpha = "0.5" -> 2
      [] alpha = "1.0" -> 4
      [] alpha = "2.0" -> 8

\* 0-based position of an id in a list without repetition
PlaceIn(rows, id) == (CHOOSE i \in 1..Len(rows) : rows[i] = id) - 1

\* the rank of an id for one method: its place in the list, n when absent
\* (rank / n is then exactly 1)
ClaimedRank(rows, id) ==
    IF id \in Range(rows) THEN PlaceIn(rows, id) ELSE args.n

\* 4 * n * (w * vfrac + (1 - w) * lfrac), in exact arithmetic
ExactScore(id) ==
    WeightQuarters(args.alpha) * ClaimedRank(args.rows_v, id)
      + (4 - WeightQuarters(args.alpha)) * ClaimedRank(args.rows_b, id)

\* the same score as a float
RoundedScore(id) ==
    double_score(args.alpha, ClaimedRank(args.rows_v, id),
                 ClaimedRank(args.rows_b, id), args.n)

\* first-seen order of the union: the vector list, then the lexical list
FirstSeen(id) ==
    IF id \in Range(args.rows_v) THEN PlaceIn(args.rows_v, id)
    ELSE Len(args.rows_v) + PlaceIn(args.rows_b, id)

Candidates == Range(args.rows_v) \cup Range(args.rows_b)

ExactBefore(a, b) ==
    \/ ExactScore(a) < ExactScore(b)
    \/ ExactScore(a) = ExactScore(b) /\ FirstSeen(a) < FirstSeen(b)

RoundedBefore(a, b) ==
    \/ DoubleLess(RoundedScore(a), RoundedScore(b))
    \/ RoundedScore(a) = RoundedScore(b) /\ FirstSeen(a) < FirstSeen(b)

\* hits holds the first topk of the candidates in the exact order
FirstExact(hits) ==
    /\ Len(hits) = IF args.topk < Cardinality(Candidates)
                   THEN args.topk ELSE Cardinality(Candidates)
    /\ \A i \in 1..Len(hits) : hits[i].id \in Candidates
    /\ \A i \in 1..Len(hits), j \in 1..Len(hits) :
          i < j => ExactBefore(hits[i].id, hits[j].id)
    /\ \A i \in 1..Len(hits) :
          \A id \in Candidates \ {hits[k].id : k \in 1..Len(hits)} :
              ExactBefore(hits[i].id, id)

\* hits holds the first topk of the candidates in the order of the floats
FirstRounded(hits) ==
    /\ Len(hits) = IF args.topk < Cardinality(Candidates)
                   THEN args.topk ELSE Cardinality(Candidates)
    /\ \A i \in 1..Len(hits) :
          /\ hits[i].id \in Candidates
          /\ hits[i].score = RoundedScore(hits[i].id)
    /\ \A i \in 1..Len(hits), j \in 1..Len(hits) :
          i < j => RoundedBefore(hits[i].id, hits[j].id)
    /\ \A i \in 1..Len(hits) :
          \A id \in Candidates \ {hits[k].id : k \in 1..Len(hits)} :
              RoundedBefore(hits[i].id, id)

FusedRankingExact ==
    \A k \in 1..Len(returned) : FirstExact(returned[k])

BothAtTop(id) ==
    /\ args.rows_v # <<>> /\ args.rows_v[1] = id
    /\ args.rows_b # <<>> /\ args.rows_b[1] = id

\* the id is in exactly one of the two lists
InOneList(id) == (id \in Range(args.rows_v)) # (id \in Range(args.rows_b))

\* weights between 0 and 1, ends included
UnitWeights == {"0.0", "0.5", "1.0"}

\* an id heading both lists scores strictly lower than every id of one list
\* only, and no result holds the latter without the former before it
TopBeforeSingle ==
    \A x \in Candidates, y \in Candidates :
       BothAtTop(x) /\ InOneList(y) =>
          /\ DoubleLess(RoundedScore(x), RoundedScore(y))
          /\ \A k \in 1..Len(returned) : \A j \in 1..Len(returned[k]) :
                returned[k][j].id = y =>
                   \E i \in 1..(j - 1) : returned[k][i].id = x

(* C14, as stated: for every pool size N >= 1 and every weight the         *)
(* function accepts, an id at rank 0 in both lists gets a fused score      *)
(* strictly lower than every id that is in only one list, and is returned  *)
(* before it.                                                              *)
C14_TopOfBothFirst == TopBeforeSingle

(* C14, amended: the same for every pool size N >= 1 and every weight w    *)
(* with 0 <= w <= 1.  (With w = 2.0 and N >= 3 an id at rank 1 of the      *)
(* vector list only scores 2/N - 1 < 0.)                                   *)
C14_TopOfBothFirstUnitWeight == args.alpha \in UnitWeights => TopBeforeSingle

\* with weight 1.0 a call returned an id heading both lists before an id of
\* the vector list only
C14_Witness ==
    /\ args.alpha = "1.0"
    /\ Len(returned) = 2
    /\ \E i \in 1..Len(returned[1]), j \in 1..Len(returned[1]) :
          /\ i < j
          /\ BothAtTop(returned[1][i].id)
          /\ returned[1][j].id \in Range(args.rows_v)
          /\ returned[1][j].id \notin Range(args.rows_b)

----------------------------------------------------------------------------
(* Vocabulary of the properties of the model client *)

\* the calls whose generation is under way against the endpoint of an instance
Streaming(name) ==
    {c \in 1..MaxCalls : /\ calls[c].pc \in {"stream", "failed"}
                         /\ calls[c].instance_url = url_map[name]}

CountsWithinLimits ==
    \A name \in Instances :
       /\ instance_health[name].active_requests >= 0
       /\ instance_health[name].active_requests <= instance_limits[name]
       /\ instance_health[name].active_requests = Cardinality(Streaming(name))

\* call c leaves _get_best_instance and begins its generation
SelectionStep(c) == calls[c].pc # "stream" /\ calls'[c].pc = "stream"

\* the health records as the selection of call c read them: those after the
\* step, the increment of the call taken back
HealthRead(c) ==
    [name \in Instances |->
        IF name = calls'[c].instance_name
        THEN [instance_health'[name] EXCEPT !.active_requests = @ - 1]
        ELSE instance_health'[name]]

(* C15: _get_best_instance never returns the endpoint of an instance that  *)
(* is marked unhealthy or whose active_requests is at or above its limit;  *)
(* so after a failed probe of an instance its endpoint is returned by no   *)
(* selection until a later probe of it succeeds.                           *)
C15_ReturnsAvailableOnly ==
    [][\A c \in 1..MaxCalls : SelectionStep(c) =>
          \A name \in Instances :
             url_map[name] = calls'[c].instance_url => Available(HealthRead(c), name)]_vars

\* the instances that are healthy and under their limit
AvailableSet == {name \in Instances : Available(instance_health, name)}

\* the first available instance of a preference order
FirstAvailable(order) ==
    order[CHOOSE k \in 1..Len(order) :
             /\ order[k] \in AvailableSet
             /\ \A j \in 1..(k - 1) : order[j] \notin AvailableSet]

\* the available instances that minimise active_count + 0.1 * latency
Minimising ==
    {name \in AvailableSet :
        \A other \in AvailableSet :
           10 * instance_health[name].active_requests + instance_health[name].response_time
             <= 10 * instance_health[other].active_requests
                  + instance_health[other].response_time}

\* the endpoints the stated rules allow for the arguments in args
RuledEndpoints ==
    IF AvailableSet = {} THEN {default_url}
    ELSE IF args.priority \in {"high", "critical"}
    THEN {url_map[FirstAvailable(<<"primary", "secondary", "fast">>)]}
    ELSE IF args.priority = "fast" \/ args.estimated_duration < 30
    THEN {url_map[FirstAvailable(<<"fast", "secondary", "primary">>)]}
    ELSE {url_map[name] : name \in Minimising}

(* C16: over the healthy instances under their limit, a hint of high or    *)
(* critical selects the first available of (primary, secondary, fast);     *)
(* otherwise a hint of fast or a duration below 30 s selects the first     *)
(* available of (fast, secondary, primary); otherwise an instance that     *)
(* minimises active_count + 0.1 * latency is selected; the default         *)
(* endpoint is returned only when no instance is available.                *)
C16_RulePrecedence ==
    returned # <<>> => returned[1] \in RuledEndpoints

(* C17: in every reachable state of HybridModelClient, under any           *)
(* interleaving of stream_generate_async calls, those routed through the   *)
(* default endpoint included, each instance's active_requests is between 0 *)
(* and its limit (primary 2, secondary 2, fast 3) and equals the number of *)
(* generations streaming on that instance.                                 *)
C17_CountsWithinLimits == CountsWithinLimits

----------------------------------------------------------------------------
(* Drain passes and classification *)

\* the instance is at its ceiling
AtCeiling(active, instance) ==
    Cardinality(active[instance]) >= ClaimedCapacity(instance)

(* C18: in a drain pass, when the head of a lane targets an instance at    *)
(* its ceiling no request of that lane is dispatched, even if a later      *)
(* request of the lane targets an instance with a free slot; the pass goes *)
(* on to the lower lanes, so that when it ends every head left in a lane   *)
(* targets an instance at its ceiling.                                     *)
C18_BlockedHeadStopsLane ==
    [][ DrainStep =>
        \A priority \in RequestPriority :
            /\ (/\ queues[priority] # <<>>
                /\ AtCeiling(active_requests,
                             determine_model_instance(Head(queues[priority]))))
                  => queues'[priority] = queues[priority]
            /\ queues'[priority] # <<>>
                  => AtCeiling(active_requests',
                               determine_model_instance(Head(queues'[priority]))) ]_vars

\* a drain pass has just left a lane alone whose head is blocked and which
\* holds a later request for an instance with a free slot, and has
\* dispatched a request of a lower lane
C18_Witness ==
    /\ last.op = "process_queues"
    /\ \E priority \in RequestPriority :
          /\ queues[priority] # <<>>
          /\ AtCeiling(active_requests, determine_model_instance(Head(queues[priority])))
          /\ \A k \in 1..Len(last.created) :
                last.created[k].request.priority # priority
          /\ \E i \in 2..Len(queues[priority]) :
                ~AtCeiling(active_requests, determine_model_instance(queues[priority][i]))
          /\ \E k \in 1..Len(last.created) :
                PriorityValue(last.created[k].request.priority) < PriorityValue(priority)

\* the instance the classification rule gives a request
ClaimedTarget(request) ==
    IF request.priority \in {"CRITICAL", "HIGH"} THEN "priority"
    ELSE IF request.estimated_duration < 30
            \/ request.template \in {"simple_summary", "quick_notes"} THEN "fast"
    ELSE "normal"

(* C19: the target instance of a request is fixed by its classification:   *)
(* CRITICAL or HIGH gives PRIORITY whatever the duration and the template, *)
(* otherwise a duration below 30 s or the template simple_summary or       *)
(* quick_notes gives FAST, every other request NORMAL; so a NORMAL or LOW  *)
(* request is never in the active set of PRIORITY and a CRITICAL or HIGH   *)
(* request never in that of FAST or NORMAL.                                *)
C19_TargetByClassification ==
    /\ \A request \in Waiting \cup Running :
          determine_model_instance(request) = ClaimedTarget(request)
    /\ \A k \in 1..Len(tasks) :
          tasks[k].kind = "process_request" =>
             tasks[k].instance = ClaimedTarget(tasks[k].request)
    /\ \A instance \in ModelInstance : \A request \in active_requests[instance] :
          /\ instance = ClaimedTarget(request)
          /\ request.priority \in {"NORMAL", "LOW"} => instance # "priority"
          /\ request.priority \in {"CRITICAL", "HIGH"} => instance \notin {"fast", "normal"}

\* the active sets hold a CRITICAL request of short duration on PRIORITY, a
\* short request and a request of a light template on FAST and a request on
\* NORMAL, while a HIGH request of a light template waits
C19_Witness ==
    /\ \E request \in active_requests["priority"] :
          request.priority = "CRITICAL" /\ request.estimated_duration < 30
    /\ \E request \in active_requests["fast"] :
          request.estimated_duration < 30 /\ request.template = "report"
    /\ \E request \in active_requests["fast"] :
          request.estimated_duration >= 30 /\ request.template = "simple_summary"
    /\ active_requests["normal"] # {}
    /\ \E request \in Waiting :
          request.priority = "HIGH" /\ request.template = "quick_notes"

----------------------------------------------------------------------------
(* Termination *)

\* the request has a terminal Result Record
Terminal(request) ==
    /\ request.request_id \in DOMAIN status_keys
    /\ status_keys[request.request_id] \in {COMPLETED, FAILED}

\* the four lanes and the three active sets are empty and every counter is 0
Drained ==
    /\ \A priority \in RequestPriority : queues[priority] = <<>>
    /\ \A instance \in ModelInstance : active_requests[instance] = {}
    /\ \A user_id \in DOMAIN user_active_requests : user_active_requests[user_id] = 0

(* C20: once no further submission arrives (the calls of the scenario are  *)
(* finitely many), every task being run to its end, every accepted request *)
(* eventually has a terminal Result Record, and eventually all lanes and   *)
(* all active sets are empty and every user's counter is back to 0.        *)
C20_EventuallyDrained ==
    /\ <>[](\A request \in Waiting \cup Running : Terminal(request))
    /\ <>[]Drained

----------------------------------------------------------------------------
(* Failures during an execution *)

\* the step was an execution that ended with an exception
FailedExecution ==
    /\ ProcessRequestStep
    /\ last'.status = FAILED

\* what the execution of a request leaves to the other requests: the lanes,
\* the other members of the active sets, the counters of the other users and
\* the tasks already created
OthersUntouched(request) ==
    /\ queues' = queues
    /\ \A instance \in ModelInstance :
          active_requests'[instance] \ {request} = active_requests[instance] \ {request}
    /\ \A user_id \in (DOMAIN user_active_requests \cup DOMAIN user_active_requests')
                         \ {request.user_id} :
          UserActive(user_active_requests', user_id)
            = UserActive(user_active_requests, user_id)
    /\ Len(tasks') >= Len(tasks) - 1
    /\ SubSeq(tasks', 1, Len(tasks) - 1) = Tail(tasks)

(* C21: an exception raised while a request executes gives that request a  *)
(* FAILED Result Record holding the error text and touches no other        *)
(* request: lanes, the other active-set members, the other users' counters *)
(* and the tasks of others stay as they are; and after it the other        *)
(* requests still get to their own terminal record, drain passes           *)
(* dispatching the waiting ones into free capacity.                        *)
C21_FailureIsolated ==
    /\ [][ FailedExecution =>
             LET request == Head(tasks).request
             IN  /\ request.request_id \in DOMAIN status_keys'
                 /\ status_keys'[request.request_id] = FAILED
                 /\ request.request_id \in DOMAIN result_keys'
                 /\ result_keys'[request.request_id] = last'.payload
                 /\ last'.payload # ""
                 /\ OthersUntouched(request) ]_vars
    /\ (last.op = "process_request" /\ last.status = FAILED)
          ~> (\A request \in Waiting \cup Running : Terminal(request))

\* the execution got past the save and the override of the client's endpoint
\* field (lines 218-219), which a generation call against the endpoint of the
\* request's instance has to follow
OverrideDone ==
    /\ "ollama_url" \in UnifiedClientAttributes
    /\ last'.payload # AttributeErrorText("ollama_url")

(* C22: every execution saves the shared client's endpoint field, sets it  *)
(* to the endpoint of the instance the request was dispatched to, makes    *)
(* its generation call against that endpoint and restores the field, so    *)
(* that concurrent executions neither observe nor keep each other's        *)
(* override.                                                               *)
C22_EndpointOverride ==
    [][ ProcessRequestStep => OverrideDone ]_vars

\* the execution that the step ends could not write its Result Record
StoreFailed ==
    /\ ProcessRequestStep
    /\ Head(tasks).request.request_id \notin DOMAIN status_keys'

(* C23: a failure while writing the cache entry or the Result Record is    *)
(* swallowed: the request still leaves its active set, its user's counter  *)
(* still goes down by one and the follow-up drain pass still runs, leaving *)
(* no lane head waiting for an instance with a free slot.                  *)
C23_WriteFailureSwallowed ==
    [][ StoreFailed =>
        LET request == Head(tasks).request
        IN  /\ \A instance \in ModelInstance : request \notin active_requests'[instance]
            /\ UserActive(user_active_requests', request.user_id)
                  = UserActive(user_active_requests, request.user_id) - 1
            /\ \A priority \in RequestPriority :
                  queues'[priority] # <<>> =>
                     AtCeiling(active_requests',
                               determine_model_instance(Head(queues'[priority]))) ]_vars

\* the generation of call c raises in this step
GenerationFails(c) == calls[c].pc = "stream" /\ calls'[c].pc = "failed"

(* C24: when a generation call against an instance fails, the health       *)
(* record of that instance is marked unhealthy, so that later selections   *)
(* leave the instance out until a probe of it succeeds.                    *)
C24_FailureMarksUnhealthy ==
    [][ \A c \in 1..MaxCalls :
          GenerationFails(c) /\ calls[c].instance_name \in Instances =>
             ~instance_health'[calls[c].instance_name].healthy ]_vars

\* the list the search builds from the rows of one query alone
ListOfOne(rows) ==
    search_snippets_hybrid(IF args.vector_raises THEN <<>> ELSE rows,
                           IF args.lexical_raises THEN <<>> ELSE rows,
                           args.topk, args.n, args.alpha)

(* C25: when exactly one of the two queries of the hybrid search fails,    *)
(* the search does not raise and returns the ranked list of the other      *)
(* query's candidates; when both fail there is no list and the prompt is   *)
(* built from the no-source-material sentinel.                             *)
C25_OneQueryDegrades ==
    \A k \in 1..Len(returned) :
       /\ args.vector_raises /\ ~args.lexical_raises =>
             ~returned[k].raised /\ returned[k].hits = ListOfOne(args.rows_b)
       /\ ~args.vector_raises /\ args.lexical_raises =>
             ~returned[k].raised /\ returned[k].hits = ListOfOne(args.rows_v)
       /\ args.vector_raises /\ args.lexical_raises =>
             returned[k].hits = <<>> /\ returned[k].source_content = NoExcerpts

\* the requests of a user that wait or run
InFlight(user_id) ==
    Cardinality(OwnedBy(user_id, Waiting)) + Cardinality(OwnedBy(user_id, Running))

(* C26: for a user whose tier does not change, the number of that user's   *)
(* requests that wait in a lane or run on an instance never exceeds the    *)
(* tier's limit (free 3, premium 8, enterprise 15), whatever the           *)
(* interleaving of submissions, drain passes and executions.               *)
C26_UserWithinTierLimit ==
    \A request \in Waiting \cup Running :
        InFlight(request.user_id) <= ClaimedUserLimit(request.user_tier)

\* users of all three tiers at their limits, with requests waiting and running
C26_Witness ==
    /\ \E r1 \in Running, r2 \in Waiting :
          /\ r1.user_id = r2.user_id
          /\ r1.user_tier = "premium"
          /\ InFlight(r1.user_id) = 8
    /\ \E request \in Waiting \cup Running :
          request.user_tier = "free" /\ InFlight(request.user_id) = 3
    /\ \E request \in Waiting :
          request.user_tier = "enterprise" /\ InFlight(request.user_id) = 15
    /\ last.op = "add_request"
    /\ last.status = FAILED
    /\ last.payload = RateLimitReason(15)

\* the request ids held in a lane, in an active set, in the execution tasks
LaneIds(priority) == {queues[priority][i].request_id : i \in 1..Len(queues[priority])}

ActiveIds(instance) == {request.request_id : request \in active_requests[instance]}

TaskIds(ts) ==
    {ts[k].request.request_id : k \in {j \in 1..Len(ts) : ts[j].kind = "process_request"}}

RECURSIVE SumOver(_, _)
SumOver(f, keys) ==
    IF keys = {} THEN 0
    ELSE LET key == CHOOSE k \in keys : TRUE
         IN  f[key] + SumOver(f, keys \ {key})

\* every accepted request is held in at most one place
OnePlace ==
    /\ \A priority \in RequestPriority :
          Cardinality(LaneIds(priority)) = Len(queues[priority])
    /\ Cardinality(UNION {LaneIds(priority) : priority \in RequestPriority})
          = SumOver([priority \in RequestPriority |-> Len(queues[priority])],
                    RequestPriority)
    /\ \A instance \in ModelInstance :
          Cardinality(ActiveIds(instance)) = Cardinality(active_requests[instance])
    /\ Cardinality(UNION {ActiveIds(instance) : instance \in ModelInstance})
          = SumOver([instance \in ModelInstance |->
                        Cardinality(active_requests[instance])], ModelInstance)
    /\ UNION {LaneIds(priority) : priority \in RequestPriority}
          \cap UNION {ActiveIds(instance) : instance \in ModelInstance} = {}

\* a drain pass dispatches requests that wait, that no earlier pass has
\* dispatched, and each of them once
DispatchedOnce ==
    DrainStep =>
       /\ Cardinality(TaskIds(last'.created)) = Len(last'.created)
       /\ TaskIds(last'.created)
             \subseteq UNION {LaneIds(priority) : priority \in RequestPriority}
       /\ TaskIds(last'.created) \cap TaskIds(tasks) = {}
       /\ TaskIds(last'.created) \cap DOMAIN status_keys = {}
       /\ TaskIds(last'.created)
             \cap UNION {ActiveIds(instance) : instance \in ModelInstance} = {}

(* C27: every accepted request is in at most one place at a time: not      *)
(* twice in a lane, not in two lanes, not in a lane and an active set, not *)
(* in two active sets; and it is dispatched at most once, also when        *)
(* several drain passes are pending.                                       *)
C27_OnePlaceOneDispatch == []OnePlace /\ [][DispatchedOnce]_vars

\* a drain pass has dispatched while another pass is pending and requests
\* wait in two lanes
C27_Witness ==
    /\ last.op = "process_queues"
    /\ Len(last.created) >= 2
    /\ \E k \in 1..Len(tasks) : tasks[k].kind = "process_queues"
    /\ Cardinality({priority \in RequestPriority : queues[priority] # <<>>}) >= 2
    /\ Cardinality({instance \in ModelInstance : active_requests[instance] # {}}) >= 2

(* C28: in every reachable state the number of requests waiting in the    *)
(* four lanes together is at most the global ceiling of 100.               *)
C28_WaitingWithinCeiling == total_queued <= 100

\* the same with the bound the admission test gives: a submission is refused
\* when more than 100 requests wait, so the one that finds 100 is accepted
C28_WaitingWithinCeilingPlusOne == total_queued <= 101

\* 101 requests wait and the next submission has been refused as overloaded
C28_Witness ==
    /\ total_queued = 101
    /\ last.op = "add_request"
    /\ last.status = FAILED
    /\ last.payload = OverloadedReason

\* no drain pass is pending or running
NoDrainPending == \A k \in 1..Len(tasks) : tasks[k].kind # "process_queues"

(* C29: the dispatcher is work-conserving at the lane heads: in every      *)
(* state in which no drain pass is pending or running, the head of each    *)
(* non-empty lane targets an instance whose active set is at its ceiling.  *)
C29_WorkConserving ==
    NoDrainPending =>
       \A priority \in RequestPriority :
           queues[priority] # <<>> =>
              AtCeiling(active_requests,
                        determine_model_instance(Head(queues[priority])))

\* the last drain pass has run and has left a lane whose head is blocked and
\* which holds a later request whose instance has a free slot
C29_Witness ==
    /\ NoDrainPending
    /\ last.op = "process_queues"
    /\ last.created = <<>>
    /\ \E priority \in RequestPriority :
          \E i \in 2..Len(queues[priority]) :
             ~AtCeiling(active_requests, determine_model_instance(queues[priority][i]))

(* C30: two requests that differ in prompt, model or template never map   *)
(* to the same cache key, also when those strings contain the ':' that     *)
(* separates them in the hashed string; so a submission is answered CACHED *)
(* only with text generated for the same prompt, model and template.       *)
C30_DistinctContentDistinctKey ==
    (returned # <<>> /\ ~Identical(args[1], args[2])) => returned[1] # returned[2]

====
